---- MODULE Spec2Model ----
(***************************************************************************)
(* Model of the canvas card renderer (class VisualGenerator,               *)
(* src/assets/js/visual-generator.js) of the xiaohongshu-ai-generator.     *)
(*                                                                         *)
(* Spec / FairSpec : generateCard on engine instances, one step per        *)
(*                   synchronous stretch between two awaits.               *)
(* RenderSpec      : renders one after the other, of every image style.    *)
(* TagSpec         : mergeTags on bounded tag lists.                       *)
(* ParseSpec, KickerSpec, ListSpec : parseContent and parseListItem.       *)
(* LayoutSpec, CardSpec : drawContent on a parsed card, down to the tags.  *)
(* BatchSpec       : the render tasks of generateWithVisualGenerator.      *)
(* ResolveSpec     : getTemplateConfig and getStyleProfile by name.        *)
(* SizeSpec        : generateCard in every aspect ratio and quality.       *)
(* OptimizeSpec    : ContentOptimizer.optimizeContent and its fallback.    *)
(* ScenarioSpec    : one card from its text to its artifact, step by step. *)
(* PreviewSpec     : live preview and batch generation of step 4, the     *)
(*                   application's image list and the memory cleanup.      *)
(* WizardSpec, EntrySpec : the five steps of PreviewSystem, their step     *)
(*                   data, the saved state, the listeners of steps 4, 5.   *)
(* TierSpec        : drawContent at the limits of the panel height tiers.  *)
(*                                                                         *)
(* A string is a sequence of characters, a character a TLA+ string naming  *)
(* it: "a" "A" Latin letters, "1" a digit, "han" an ideograph, "yi" an     *)
(* ideographic numeral, "emoji" a list glyph (two UTF-16 code units),      *)
(* "nl" the line feed, ":" the colon of either width, "stop" a sentence    *)
(* end, "dun" the enumeration comma, "ell" the one-character ellipsis.     *)
(***************************************************************************)
EXTENDS Integers, Sequences, FiniteSets, TLC

VARIABLES
    isGenerating,   \* engine -> this.isGenerating
    surface,        \* engine -> draw calls on this.canvas since the last clearCanvas
    canvas,         \* engine -> pixel size of this.canvas, and this._renderInfo
    pc,             \* call -> where the generateCard invocation stands
    req,            \* call -> arguments of the invocation
    res,            \* call -> how the returned promise settled
    inflightAtCall, \* call -> calls pending on the same engine when it was issued
    scope,          \* the invocations and arguments a run draws from (never changes)
    input,          \* arguments of the text function being applied
    output          \* its result, once it has run

vars == <<isGenerating, surface, canvas, pc, req, res, inflightAtCall, scope, input, output>>

----------------------------------------------------------------------------
(* Bounds *)

NCalls == 3      \* invocations of generateCard in Spec
NRenders == 2    \* invocations of generateCard in RenderSpec

Calls == 1..(IF NCalls > NRenders THEN NCalls ELSE NRenders)

\* window.visualGenerator, and a second instance a caller may create
Engines == {"visualGenerator", "other"}

----------------------------------------------------------------------------
(* Style profiles, getStyleProfile *)

StyleNames == {"realistic", "illustration", "minimalist", "artistic", "unknown"}

\* profiles[imageStyle] || profiles.illustration
ProfileKey(imageStyle) ==
    IF imageStyle \in {"realistic", "illustration", "minimalist", "artistic"}
    THEN imageStyle ELSE "illustration"

TextureNoiseMinimalistNoisy(imageStyle) ==
    CASE ProfileKey(imageStyle) = "realistic" -> 2
      [] ProfileKey(imageStyle) = "illustration" -> 2
      [] ProfileKey(imageStyle) = "minimalist" -> 2
      [] ProfileKey(imageStyle) = "artistic" -> 6

TextureNoise(imageStyle) ==
    CASE ProfileKey(imageStyle) = "realistic" -> 2
      [] ProfileKey(imageStyle) = "illustration" -> 2
      [] ProfileKey(imageStyle) = "minimalist" -> 0
      [] ProfileKey(imageStyle) = "artistic" -> 6

BackgroundMode(imageStyle) ==
    CASE ProfileKey(imageStyle) = "realistic" -> "soft"
      [] ProfileKey(imageStyle) = "illustration" -> "soft"
      [] ProfileKey(imageStyle) = "minimalist" -> "minimal"
      [] ProfileKey(imageStyle) = "artistic" -> "artistic"

DecorationLevel(imageStyle) ==
    CASE ProfileKey(imageStyle) = "realistic" -> "subtle"
      [] ProfileKey(imageStyle) = "illustration" -> "subtle"
      [] ProfileKey(imageStyle) = "minimalist" -> "none"
      [] ProfileKey(imageStyle) = "artistic" -> "rich"

----------------------------------------------------------------------------
(* The drawing surface.  A draw call is [by, step, arg]: the invocation    *)
(* that issued it, the routine, and what decides the pixels it writes.     *)

Draw(c, step, arg) == [by |-> c, step |-> step, arg |-> arg]

\* (Math.random() - 0.5) * intensity lies in [-intensity/2, intensity/2); added to
\* a channel of the Uint8ClampedArray it moves the channel by a whole number of
\* at most intensity/2.  One representative pixel stands for the whole surface.
NoiseValues(intensity) == (0 - (intensity \div 2)) .. (intensity \div 2)

\* drawBackground: fill, overlay by backgroundMode, then addBackgroundTexture,
\* which returns at once when the intensity is not positive.
drawBackground(c, style, noise) ==
    <<Draw(c, "fill", BackgroundMode(style))>>
    \o (IF BackgroundMode(style) \in {"artistic", "soft"}
        THEN <<Draw(c, "overlay", BackgroundMode(style))>> ELSE << >>)
    \o (IF TextureNoise(style) <= 0
        THEN << >> ELSE <<Draw(c, "noise", noise)>>)

\* The mutant: the ornaments are drawn before the top bar
drawDecorationsBarLast(c, style) ==
    (CASE DecorationLevel(style) = "none" -> << >>
       [] DecorationLevel(style) = "subtle" -> <<Draw(c, "corners", 22)>>
       [] OTHER -> <<Draw(c, "corners", 26), Draw(c, "category", style)>>)
    \o <<Draw(c, "topbar", style)>>

\* drawDecorations: top bar, then ornaments by decorationLevel
drawDecorations(c, style) ==
    <<Draw(c, "topbar", style)>>
    \o (CASE DecorationLevel(style) = "none" -> << >>
          [] DecorationLevel(style) = "subtle" -> <<Draw(c, "corners", 22)>>
          [] OTHER -> <<Draw(c, "corners", 26), Draw(c, "category", style)>>)

\* The pixels of a surface: its draw calls without the issuing invocation
Pixels(log) == [i \in DOMAIN log |-> <<log[i].step, log[i].arg>>]

----------------------------------------------------------------------------
(* generateCard *)

Requests ==
    [engine : Engines, imageStyle : scope.styles, addWatermark : BOOLEAN,
     aspectRatio : scope.ratios, quality : scope.qualities]

\* The scope of a run without invocations of generateCard
NoCalls == [calls |-> {}, styles |-> {}, serial |-> TRUE, ratios |-> {}, qualities |-> {}]

Qualities == {"standard", "high", "ultra"}

\* presets[quality] || presets.high
QualitySet(quality) == IF quality \in Qualities THEN quality ELSE "high"

\* qualitySet[aspectRatio] || qualitySet['9:16'], row by row of presets
getOutputDimensions(aspectRatio, quality) ==
    CASE QualitySet(quality) = "standard" ->
           (CASE aspectRatio = "1:1" -> [width |-> 540, height |-> 540]
              [] aspectRatio = "16:9" -> [width |-> 960, height |-> 540]
              [] aspectRatio = "4:5" -> [width |-> 720, height |-> 900]
              [] OTHER -> [width |-> 540, height |-> 960])
      [] QualitySet(quality) = "high" ->
           (CASE aspectRatio = "1:1" -> [width |-> 1080, height |-> 1080]
              [] aspectRatio = "16:9" -> [width |-> 1920, height |-> 1080]
              [] aspectRatio = "4:5" -> [width |-> 1080, height |-> 1350]
              [] OTHER -> [width |-> 1080, height |-> 1920])
      [] QualitySet(quality) = "ultra" ->
           (CASE aspectRatio = "1:1" -> [width |-> 1440, height |-> 1440]
              [] aspectRatio = "16:9" -> [width |-> 2560, height |-> 1440]
              [] aspectRatio = "4:5" -> [width |-> 1440, height |-> 1800]
              [] OTHER -> [width |-> 1440, height |-> 2560])

\* setupCanvas: the canvas has the design size of the constructor
NewCanvas == [width |-> 540, height |-> 960, renderInfo |-> [quality |-> "none"]]

\* The mutant: a canvas that was sized by an earlier render is not resized
prepareCanvasOnce(was, aspectRatio, quality) ==
    IF was.renderInfo.quality # "none" THEN was
    ELSE [width |-> getOutputDimensions(aspectRatio, quality).width,
          height |-> getOutputDimensions(aspectRatio, quality).height,
          renderInfo |-> [aspectRatio |-> aspectRatio, quality |-> quality,
                          output |-> getOutputDimensions(aspectRatio, quality)]]

\* prepareCanvas: canvas.width, canvas.height and this._renderInfo
prepareCanvas(was, aspectRatio, quality) ==
    [width |-> getOutputDimensions(aspectRatio, quality).width,
     height |-> getOutputDimensions(aspectRatio, quality).height,
     renderInfo |-> [aspectRatio |-> aspectRatio, quality |-> quality,
                     output |-> getOutputDimensions(aspectRatio, quality)]]

NoRequest == [engine |-> "none"]

NoResult == [status |-> "none"]
BusyError == [status |-> "rejected", error |-> "busy"]
DrawError == [status |-> "rejected", error |-> "draw"]

Pending(c) == pc[c] \notin {"idle", "settled"}

\* if (this.isGenerating) throw ...  (before the try block)
BusyNever(flag) == FALSE

Busy(flag) == flag

\* The busy throw precedes "try", so its "finally" does not run for a rejected
\* invocation: the flag stays as the pending render set it.
FlagReleasedOnBusy(flag) == FALSE

FlagAfterBusy(flag) == flag

InitEngine ==
    /\ isGenerating = [e \in Engines |-> FALSE]
    /\ surface = [e \in Engines |-> << >>]
    /\ canvas = [e \in Engines |-> NewCanvas]
    /\ pc = [c \in Calls |-> "idle"]
    /\ req = [c \in Calls |-> NoRequest]
    /\ res = [c \in Calls |-> NoResult]
    /\ inflightAtCall = [c \in Calls |-> {}]

\* Any interleaving of NCalls invocations
Init ==
    /\ InitEngine
    /\ scope = [calls |-> 1..NCalls, styles |-> {"minimalist"}, serial |-> FALSE,
                ratios |-> {"9:16"}, qualities |-> {"high"}]
    /\ input = [fn |-> "none"]
    /\ output = [fn |-> "none"]

\* NRenders invocations, one after the other has settled, of every style
InitRender ==
    /\ InitEngine
    /\ scope = [calls |-> 1..NRenders, styles |-> StyleNames, serial |-> TRUE,
                ratios |-> {"9:16"}, qualities |-> {"high"}]
    /\ input = [fn |-> "none"]
    /\ output = [fn |-> "none"]

\* Entry of generateCard up to "await this.init()".  Invocations are numbered
\* in the order they are issued.
GenerateCard(c) ==
    /\ pc[c] = "idle"
    /\ c \in scope.calls
    /\ \A d \in Calls : d < c => pc[d] # "idle"
    /\ scope.serial => \A d \in Calls : ~Pending(d)
    /\ \E r \in Requests :
          /\ req' = [req EXCEPT ![c] = r]
          /\ inflightAtCall' = [inflightAtCall EXCEPT
                  ![c] = {d \in Calls : Pending(d) /\ req[d].engine = r.engine}]
          /\ IF Busy(isGenerating[r.engine])
             THEN /\ pc' = [pc EXCEPT ![c] = "settled"]
                  /\ res' = [res EXCEPT ![c] = BusyError]
                  /\ isGenerating' = [isGenerating EXCEPT
                          ![r.engine] = FlagAfterBusy(isGenerating[r.engine])]
             ELSE /\ isGenerating' = [isGenerating EXCEPT ![r.engine] = TRUE]
                  /\ pc' = [pc EXCEPT ![c] = "init"]
                  /\ UNCHANGED res
    /\ UNCHANGED <<surface, canvas, scope, input, output>>

\* The mutant: a render that threw leaves through catch without the finally
FlagKeptOnThrow(flag) == flag

\* finally { this.isGenerating = false } on the way out of a render that threw
FlagAfterThrow(flag) == FALSE

\* catch: rethrow; finally: this.isGenerating = false
Throw(c) ==
    /\ pc' = [pc EXCEPT ![c] = "settled"]
    /\ res' = [res EXCEPT ![c] = DrawError]
    /\ isGenerating' = [isGenerating EXCEPT
            ![req[c].engine] = FlagAfterThrow(isGenerating[req[c].engine])]

\* prepareCanvas, getTemplateConfig, getStyleProfile, clearCanvas, drawBackground
Background(c) ==
    /\ pc[c] = "init"
    /\ \E noise \in NoiseValues(TextureNoise(req[c].imageStyle)) :
          surface' = [surface EXCEPT
              ![req[c].engine] = drawBackground(c, req[c].imageStyle, noise)]
    /\ canvas' = [canvas EXCEPT
          ![req[c].engine] = prepareCanvas(@, req[c].aspectRatio, req[c].quality)]
    /\ pc' = [pc EXCEPT ![c] = "title"]
    /\ UNCHANGED <<isGenerating, req, res, inflightAtCall, scope, input, output>>

\* drawContent: parseContent, mergeTags, drawTitle
Title(c) ==
    /\ pc[c] = "title"
    /\ surface' = [surface EXCEPT
          ![req[c].engine] = Append(@, Draw(c, "title", "panel"))]
    /\ pc' = [pc EXCEPT ![c] = "main"]
    /\ UNCHANGED <<isGenerating, canvas, req, res, inflightAtCall, scope, input, output>>

\* drawContent: drawMainContent, drawTags, drawIcons.  A canvas call may throw
\* (getContext gave no context, the bitmap could not be allocated).
MainContent(c) ==
    /\ pc[c] = "main"
    /\ \/ Throw(c) /\ UNCHANGED surface
       \/ /\ surface' = [surface EXCEPT
                  ![req[c].engine] = Append(@, Draw(c, "content", "panel"))]
          /\ pc' = [pc EXCEPT ![c] = "decor"]
          /\ UNCHANGED <<isGenerating, res>>
    /\ UNCHANGED <<canvas, req, inflightAtCall, scope, input, output>>

Decorations(c) ==
    /\ pc[c] = "decor"
    /\ surface' = [surface EXCEPT
          ![req[c].engine] = @ \o drawDecorations(c, req[c].imageStyle)]
    /\ pc' = [pc EXCEPT ![c] = IF req[c].addWatermark THEN "mark" ELSE "encode"]
    /\ UNCHANGED <<isGenerating, canvas, req, res, inflightAtCall, scope, input, output>>

\* if (options.addWatermark === true) await this.drawWatermark(styleProfile)
Watermark(c) ==
    /\ pc[c] = "mark"
    /\ surface' = [surface EXCEPT
          ![req[c].engine] = Append(@, Draw(c, "watermark", req[c].imageStyle))]
    /\ pc' = [pc EXCEPT ![c] = "encode"]
    /\ UNCHANGED <<isGenerating, canvas, req, res, inflightAtCall, scope, input, output>>

\* canvasToImageData: canvas.toBlob snapshots the bitmap and calls back later
Encode(c) ==
    /\ pc[c] = "encode"
    /\ pc' = [pc EXCEPT ![c] = "blobwait"]
    /\ res' = [res EXCEPT ![c] =
          [status |-> "none", snapshot |-> surface[req[c].engine],
           bitmap |-> [width |-> canvas[req[c].engine].width,
                       height |-> canvas[req[c].engine].height],
           outputSize |-> canvas[req[c].engine].renderInfo.output]]
    /\ UNCHANGED <<isGenerating, surface, canvas, req, inflightAtCall, scope, input, output>>

\* The toBlob callback.  With a blob: createObjectURL, resolve, and generateCard
\* returns through finally.  With null: URL.createObjectURL(null) throws inside
\* the callback, resolve is never called and generateCard never resumes.
BlobCallback(c) ==
    /\ pc[c] = "blobwait"
    /\ \E blob \in {"blob", "null"} :
          IF blob = "blob"
          THEN /\ res' = [res EXCEPT ![c] =
                      [status |-> "resolved", blob |-> res[c].snapshot,
                       bitmap |-> res[c].bitmap, url |-> "blob:url",
                       width |-> res[c].outputSize.width,
                       height |-> res[c].outputSize.height, format |-> "png"]]
               /\ pc' = [pc EXCEPT ![c] = "settled"]
               /\ isGenerating' = [isGenerating EXCEPT ![req[c].engine] = FALSE]
          ELSE /\ pc' = [pc EXCEPT ![c] = "lost"]
               /\ UNCHANGED <<res, isGenerating>>
    /\ UNCHANGED <<surface, canvas, req, inflightAtCall, scope, input, output>>

Step(c) ==
    \/ GenerateCard(c)
    \/ Background(c)
    \/ Title(c)
    \/ MainContent(c)
    \/ Decorations(c)
    \/ Watermark(c)
    \/ Encode(c)
    \/ BlobCallback(c)

Next == \E c \in Calls : Step(c)

Spec == Init /\ [][Next]_vars

\* The event loop runs every continuation and callback that is queued.
FairSpec == Spec /\ \A c \in Calls : WF_vars(Step(c))

RenderSpec == InitRender /\ [][Next]_vars

----------------------------------------------------------------------------
(* Claims about generateCard *)

Resolved(c) == res[c].status = "resolved"

\* What one undisturbed render of c leaves on the surface, for some noise sample
OwnRender(c, noise) ==
    drawBackground(c, req[c].imageStyle, noise)
    \o <<Draw(c, "title", "panel"), Draw(c, "content", "panel")>>
    \o drawDecorations(c, req[c].imageStyle)
    \o (IF req[c].addWatermark
        THEN <<Draw(c, "watermark", req[c].imageStyle)>> ELSE << >>)

CompleteArtifact(c) ==
    /\ Resolved(c)
    /\ \E noise \in NoiseValues(TextureNoise(req[c].imageStyle)) :
          res[c].blob = OwnRender(c, noise)

\* C1: a generateCard issued while an earlier invocation on the same engine is
\* still pending is rejected with the busy error at once, and the earlier
\* invocation, unless a canvas call of its own throws, resolves with the complete
\* artifact of its own drawing.
C1_BusyRejectsSecond ==
    \A d \in Calls :
        (pc[d] # "idle" /\ inflightAtCall[d] # {}) =>
            /\ pc[d] = "settled"
            /\ res[d] = BusyError
            /\ \A c \in inflightAtCall[d] :
                  pc[c] = "settled" => (res[c] = DrawError \/ CompleteArtifact(c))

C1_Witness ==
    \E c, d \in Calls :
        /\ c \in inflightAtCall[d]
        /\ res[d] = BusyError
        /\ pc[c] = "settled"
        /\ CompleteArtifact(c)

\* C2: on every engine at most one invocation is pending at any time, and the
\* draw calls on its surface since the last clear all come from one invocation.
C2_OneRenderInFlight ==
    \A e \in Engines :
        /\ Cardinality({c \in Calls : Pending(c) /\ req[c].engine = e}) <= 1
        /\ \A i, j \in DOMAIN surface[e] : surface[e][i].by = surface[e][j].by
        /\ \A c \in Calls : (Pending(c) /\ pc[c] # "init" /\ req[c].engine = e) =>
              \A i \in DOMAIN surface[e] : surface[e][i].by = c

C2_Witness ==
    \E c \in Calls :
        /\ pc[c] = "encode"
        /\ Len(surface[req[c].engine]) >= 3
        /\ Cardinality({d \in Calls : c \in inflightAtCall[d] /\ res[d] = BusyError}) >= 2

\* C3: every invocation that started rendering eventually settles (resolves or
\* rejects).
C3_RenderSettles ==
    \A c \in Calls : (pc[c] = "init") ~> (pc[c] = "settled")

\* C4: when the encoder delivers no blob, the promise of generateCard is
\* rejected.
C4_EncodeFailureRejects ==
    \A c \in Calls : pc[c] = "lost" => res[c].status = "rejected"

SameArguments(c, d) ==
    /\ req[c].imageStyle = req[d].imageStyle
    /\ req[c].addWatermark = req[d].addWatermark

\* C5 as stated: two resolved renders of the same arguments, on one engine or on
\* two, have the same pixels, for every image style.
C5_PixelIdentical ==
    \A c, d \in Calls :
        (Resolved(c) /\ Resolved(d) /\ SameArguments(c, d)) =>
            Pixels(res[c].blob) = Pixels(res[d].blob)

\* C5 amended: two resolved renders of the same arguments have the same pixels
\* when the style's texture noise intensity is zero (the minimalist profile).
C5_PixelIdenticalWithoutNoise ==
    \A c, d \in Calls :
        (/\ Resolved(c) /\ Resolved(d) /\ SameArguments(c, d)
         /\ ProfileKey(req[c].imageStyle) = "minimalist") =>
            Pixels(res[c].blob) = Pixels(res[d].blob)

C5_Witness ==
    \E c, d \in Calls :
        /\ c # d /\ Resolved(c) /\ Resolved(d) /\ SameArguments(c, d)
        /\ req[c].imageStyle = "minimalist"
        /\ req[c].engine # req[d].engine
        /\ Pixels(res[c].blob) = Pixels(res[d].blob)

\* The invocations an engine is rendering: accepted, and their promise not settled
InFlight(e) == {c \in Calls : Pending(c) /\ req[c].engine = e}

\* C22: the busy flag of an engine is true exactly while a render of it is in
\* flight: once every render on the engine has settled, resolved or rejected
\* (a drawing step threw), the flag is false again, and a request made then is
\* accepted rather than rejected as busy.
C22_FlagReleasedOnEveryExit ==
    /\ \A e \in Engines : isGenerating[e] <=> InFlight(e) # {}
    /\ \A d \in Calls :
          (pc[d] # "idle" /\ inflightAtCall[d] = {}) => res[d] # BusyError

C22_Witness ==
    \E c, d \in Calls :
        /\ c < d /\ req[c].engine = req[d].engine
        /\ res[c] = DrawError
        /\ inflightAtCall[d] = {}
        /\ pc[d] = "init"
        /\ isGenerating[req[d].engine]

----------------------------------------------------------------------------
(* Strings *)

Min(S) == CHOOSE x \in S : \A y \in S : x <= y
Max(S) == CHOOSE x \in S : \A y \in S : x >= y

Latin == {"a", "b", "A", "B", "t", "i", "l", "e", "T", "I", "L", "E",
          "f", "n", "w", "s"}
Digits == {"1", "2", "3"}
Numerals == {"yi", "san"}
\* Ideographs of U+4E00..U+9FFF, the numerals among them
Ideographs ==
    Numerals \cup {"han", "biao", "ti", "shi", "he", "yong", "ren", "qun",
                   "dui", "xiang", "chang", "jing", "yu",
                   "bu", "da", "hao", "kai", "fa", "huan", "jing4", "ling", "ji",
                   "chu", "xin", "shou", "an", "zhuang", "gong", "ju", "pei",
                   "zhi", "bian", "liang", "yan", "zheng"}
Spaces == {" ", "nl"}

\* String.prototype.toLowerCase, character by character
LowerChar(ch) ==
    CASE ch = "A" -> "a" [] ch = "B" -> "b" [] ch = "T" -> "t" [] ch = "I" -> "i"
      [] ch = "L" -> "l" [] ch = "E" -> "e" [] OTHER -> ch

Lower(str) == [k \in DOMAIN str |-> LowerChar(str[k])]

\* String.prototype.length counts UTF-16 code units
Units(ch) == IF ch = "emoji" THEN 2 ELSE 1

JsLength(str) ==
    Len(str) + Cardinality({k \in DOMAIN str : Units(str[k]) = 2})

TrimStart(str) ==
    LET keep == {k \in DOMAIN str : str[k] \notin Spaces}
    IN  IF keep = {} THEN << >> ELSE SubSeq(str, Min(keep), Len(str))

TrimEnd(str) ==
    LET keep == {k \in DOMAIN str : str[k] \notin Spaces}
    IN  IF keep = {} THEN << >> ELSE SubSeq(str, 1, Max(keep))

Trim(str) == TrimEnd(TrimStart(str))

Drop(str, n) == SubSeq(str, n + 1, Len(str))

\* The length of the longest prefix of str made of characters of class
RunLength(str, class) ==
    LET stop == {k \in DOMAIN str : str[k] \notin class}
    IN  IF stop = {} THEN Len(str) ELSE Min(stop) - 1

\* The length of the longest prefix of str with no character of class
LengthBefore(str, class) ==
    LET hit == {k \in DOMAIN str : str[k] \in class}
    IN  IF hit = {} THEN Len(str) ELSE Min(hit) - 1

\* The parts one after the other, put together by halves
RECURSIVE Concat(_)
Concat(parts) ==
    IF parts = << >> THEN << >>
    ELSE IF Len(parts) = 1 THEN parts[1]
    ELSE Concat(SubSeq(parts, 1, Len(parts) \div 2))
         \o Concat(SubSeq(parts, Len(parts) \div 2 + 1, Len(parts)))

\* A loop over items by halves: Op(acc, item) is one turn of it; acc is
\* looked at first, so the turns before it are over when the next ones start
RECURSIVE FoldLeft(_, _, _)
FoldLeft(Op(_, _), acc, items) ==
    IF acc # acc \/ items = << >> THEN acc
    ELSE IF Len(items) = 1 THEN Op(acc, items[1])
    ELSE FoldLeft(Op, FoldLeft(Op, acc, SubSeq(items, 1, Len(items) \div 2)),
                  SubSeq(items, Len(items) \div 2 + 1, Len(items)))

\* value, taken up once first has been computed
After(first, value) == IF first = first THEN value ELSE value

\* The numbers from, from + 1, ..., to in order
Range(from, to) == [j \in 1..(to - from + 1) |-> from + j - 1]

\* The i-th smallest member of a set of numbers, and the set in order
Nth(S, i) == CHOOSE x \in S : Cardinality({y \in S : y < x}) = i - 1
Sorted(S) == [i \in 1..Cardinality(S) |-> Nth(S, i)]

\* The maximal runs of characters of class in str that are atLeast long,
\* each by its first and last position
LongRuns(str, class, atLeast) ==
    LET starts == {k \in DOMAIN str :
                      str[k] \in class /\ (k = 1 \/ str[k - 1] \notin class)}
    IN  {r \in {[from |-> k, to |-> k + RunLength(Drop(str, k - 1), class) - 1] : k \in starts} :
            r.to - r.from + 1 >= atLeast}

\* str.replace(/[class]{atLeast,}/g, by)
ReplaceRuns(str, class, atLeast, by) ==
    LET long == LongRuns(str, class, atLeast)
    IN  Concat([k \in DOMAIN str |->
                   IF \E r \in long : k = r.from THEN by
                   ELSE IF \E r \in long : r.from < k /\ k <= r.to THEN << >>
                   ELSE <<str[k]>>])

\* str.split(separator), the separator one character of class
Split(str, class) ==
    LET cut == {k \in DOMAIN str : str[k] \in class}
        n == Cardinality(cut)
        at(i) == IF i = 0 THEN 0 ELSE IF i = n + 1 THEN Len(str) + 1 ELSE Nth(cut, i)
    IN  [i \in 1..(n + 1) |-> SubSeq(str, at(i - 1) + 1, at(i) - 1)]

\* lines.join('\n'), put together by halves
RECURSIVE Join(_)
Join(lines) ==
    IF lines = << >> THEN << >>
    ELSE IF Len(lines) = 1 THEN lines[1]
    ELSE Join(SubSeq(lines, 1, Len(lines) \div 2)) \o <<"nl">>
         \o Join(SubSeq(lines, Len(lines) \div 2 + 1, Len(lines)))

----------------------------------------------------------------------------
(* extractHashtags, mergeTags *)

\* [A-Za-z0-9_一-鿿]
TagChars == Latin \cup Digits \cup Ideographs \cup {"_"}

\* One pass of /#([A-Za-z0-9_一-鿿]+)/g over str: the tags matched, and
\* str without the matches
ScanHashtags(str) ==
    LET hits == {k \in DOMAIN str : str[k] = "#" /\ k < Len(str) /\ str[k + 1] \in TagChars}
        match(acc, k) ==
            LET n == RunLength(Drop(str, k), TagChars)
            IN  [text |-> acc.text \o SubSeq(str, acc.from, k - 1),
                 tags |-> Append(acc.tags, SubSeq(str, k + 1, k + n)),
                 from |-> k + n + 1]
        scan == FoldLeft(match, [text |-> << >>, tags |-> << >>, from |-> 1], Sorted(hits))
    IN  [text |-> scan.text \o SubSeq(str, scan.from, Len(str)), tags |-> scan.tags]

extractHashtags(str) ==
    LET scan == ScanHashtags(str)
    IN  [text |-> Trim(ReplaceRuns(ReplaceRuns(scan.text, {" "}, 2, <<" ">>),
                                   {"nl"}, 3, <<"nl", "nl">>)),
         tags |-> scan.tags]

\* merged.slice(0, 10)
MaxMergedTags == 10

\* String(t || '').trim().replace(/^#/, '')
NormalizeTag(t) ==
    LET trimmed == Trim(t)
    IN  IF trimmed # << >> /\ Head(trimmed) = "#" THEN Tail(trimmed) ELSE trimmed

\* pushTag over the tags in order: merged keeps the first spelling of each
\* lower-cased key
pushTag(merged, t) ==
    LET tag == NormalizeTag(t)
    IN  IF tag = << >> \/ \E k \in DOMAIN merged : Lower(merged[k]) = Lower(tag)
        THEN merged ELSE Append(merged, tag)

PushTags(merged, tags) == FoldLeft(pushTag, merged, tags)

mergeTagsKeepsAll(primaryTags, secondaryTags) ==
    PushTags(<< >>, primaryTags \o secondaryTags)

mergeTagsSecondaryFirst(primaryTags, secondaryTags) ==
    LET merged == PushTags(<< >>, secondaryTags \o primaryTags)
    IN  SubSeq(merged, 1, Min({MaxMergedTags, Len(merged)}))

mergeTags(primaryTags, secondaryTags) ==
    LET merged == PushTags(<< >>, primaryTags \o secondaryTags)
    IN  SubSeq(merged, 1, Min({MaxMergedTags, Len(merged)}))

----------------------------------------------------------------------------
(* TagSpec: mergeTags applied to bounded tag lists *)

MaxListed == 2     \* tags listed one by one, per argument
MaxFill == 11      \* further distinct tags "t", "tt", "ttt", ... appended

TagPool == {<<"a", "i">>, <<"A", "I">>, <<"t">>, <<"#", "a", "i">>, <<" ">>}

ListedTags(most) == UNION {[1..n -> TagPool] : n \in 0..most}

\* n distinct tags: the letter repeated 1, 2, ..., n times
Fill(letter, n) == [k \in 1..n |-> [j \in 1..k |-> letter]]

\* mergeTags(["ai","AI","life"], ["life","news"])
ExamplePrimary == <<<<"a", "i">>, <<"A", "I">>, <<"l", "i", "f", "e">>>>
ExampleSecondary == <<<<"l", "i", "f", "e">>, <<"n", "e", "w", "s">>>>

TagInputs ==
    {[fn |-> "mergeTags", primary |-> p \o Fill("t", n), secondary |-> q \o Fill("T", m)] :
        p \in ListedTags(MaxListed), q \in ListedTags(1),
        n \in {0, MaxFill - 2, MaxFill - 1, MaxFill}, m \in {0, MaxFill}}
    \cup {[fn |-> "mergeTags", primary |-> ExamplePrimary, secondary |-> ExampleSecondary]}

InitTags ==
    /\ InitEngine
    /\ scope = NoCalls
    /\ input \in TagInputs
    /\ output = [fn |-> "none"]

MergeTags ==
    /\ input.fn = "mergeTags"
    /\ output.fn = "none"
    /\ output' = [fn |-> "mergeTags", tags |-> mergeTags(input.primary, input.secondary)]
    /\ UNCHANGED <<isGenerating, surface, canvas, pc, req, res, inflightAtCall, scope, input>>

TagSpec == InitTags /\ [][MergeTags]_vars

\* The arguments of mergeTags as pushTag sees them: normalised, empty ones left out
Supplied ==
    LET all == input.primary \o input.secondary
        norm == [k \in DOMAIN all |-> NormalizeTag(all[k])]
    IN  SelectSeq(norm, LAMBDA t : t # << >>)

\* The positions in supplied of tags not seen earlier in another spelling
FirstSeen(supplied) ==
    LET key == [k \in DOMAIN supplied |-> Lower(supplied[k])]
    IN  {k \in DOMAIN supplied : \A j \in 1..(k - 1) : key[j] # key[k]}

\* C9: mergeTags returns the tags of primary then secondary (trimmed, a leading
\* "#" removed) without case-insensitive duplicates, each in its first-seen
\* spelling and in first-seen order, cut to 10 entries; the example of the
\* specification gives ["ai", "life", "news"].
C9_MergeTags ==
    output.fn = "mergeTags" =>
        LET supplied == Supplied
            first == FirstSeen(supplied)
            out == output.tags
            key == [i \in DOMAIN out |-> Lower(out[i])]
        IN  /\ Len(out) = Min({MaxMergedTags, Cardinality(first)})
            /\ \A i, j \in DOMAIN out : i # j => key[i] # key[j]
            /\ \A i \in DOMAIN out :
                  \E k \in first :
                      /\ Cardinality({j \in first : j <= k}) = i
                      /\ out[i] = supplied[k]
            /\ (input.primary = ExamplePrimary /\ input.secondary = ExampleSecondary) =>
                  out = <<<<"a", "i">>, <<"l", "i", "f", "e">>, <<"n", "e", "w", "s">>>>

C9_Witness ==
    /\ output.fn = "mergeTags"
    /\ Len(output.tags) = MaxMergedTags
    /\ output.tags[1] = <<"a", "i">>
    /\ Len(input.primary) >= 2
    /\ input.primary[2] = <<"A", "I">>
    /\ LET supplied == Supplied
       IN  /\ Cardinality(FirstSeen(supplied)) > MaxMergedTags
           /\ Cardinality(FirstSeen(supplied)) < Len(supplied)

----------------------------------------------------------------------------
(* parseContent and its helpers *)

ListGlyphs == {"emoji"}              \* the glyphs of the marker alternation
Bullets == {"-"}                     \* [-*•·]
EnumClosers == {".", ")", "dun"}     \* [\.\)、\)）]

TitleWords == {<<"biao", "ti">>, <<"t", "i", "t", "l", "e">>}
LabelWords ==
    {<<"shi", "he">>, <<"shi", "yong">>, <<"shi", "yong", "ren", "qun">>,
     <<"ren", "qun">>, <<"dui", "xiang">>, <<"chang", "jing">>,
     <<"shi", "yong", "yu">>}

NoContentTitle == <<"han", "han", "han", "han", "han">>    \* '未提供内容'
SummaryTitle == <<"han", "han", "han", "han">>             \* '内容摘要'
Ellipsis == <<".", ".", ".">>

FirstLineMax == 28
KickerLineMax == 20
LabelLineMax == 40
GeneratedTitleMax == 20

StartsWith(str, word) ==
    Len(str) >= Len(word) /\ Lower(SubSeq(str, 1, Len(word))) = word

EndsWith(str, word) ==
    Len(str) >= Len(word) /\ SubSeq(str, Len(str) - Len(word) + 1, Len(str)) = word

DropLast(str, n) == SubSeq(str, 1, Len(str) - n)

\* line.replace(/^\s*(?:glyph|[-*•·])\s*/, '')
stripLeadingMarkers(line) ==
    LET t == TrimStart(line)
    IN  IF t # << >> /\ Head(t) \in ListGlyphs \cup Bullets
        THEN TrimStart(Tail(t)) ELSE line

\* What /^\s*(?:标题|Title)\s*[:：]\s*/i matches at the start of str: its length,
\* 0 when it does not match
TitlePrefixLength(str) ==
    LET t == TrimStart(str)
        words == {w \in TitleWords : StartsWith(t, w)}
    IN  IF words = {} THEN 0
        ELSE LET w == CHOOSE x \in words : TRUE
                 after == TrimStart(Drop(t, Len(w)))
             IN  IF after # << >> /\ Head(after) = ":"
                 THEN Len(str) - Len(TrimStart(Tail(after)))
                 ELSE 0

\* m[1] of /^\s*(?:标题|Title)\s*[:：]\s*(.+?)\s*$/i, empty when there is no match
TitleLineMatch(line) ==
    IF TitlePrefixLength(line) = 0 THEN << >>
    ELSE TrimEnd(Drop(line, TitlePrefixLength(line)))

\* What (?:\d{1,2}|[一二三四五六七八九十]+) followed by one of closers matches
\* at the start of str: its length, 0 when it does not match
EnumPrefixLength(str, closers) ==
    LET d == RunLength(str, Digits)
        n == RunLength(str, Numerals)
    IN  IF d \in {1, 2} /\ Len(str) > d /\ str[d + 1] \in closers THEN d + 1
        ELSE IF n >= 1 /\ Len(str) > n /\ str[n + 1] \in closers THEN n + 1
        ELSE 0

NoListItem == [ok |-> FALSE, marker |-> << >>, content |-> << >>]

\* The mutant: the marker the first match gave is kept
parseListItemKeepsGlyph(line) ==
    LET t == TrimStart(line)
        len == IF t # << >> /\ Head(t) \in ListGlyphs \cup Bullets THEN 1
               ELSE EnumPrefixLength(t, EnumClosers)
    IN  IF len = 0 \/ Trim(Drop(t, len)) = << >> THEN NoListItem
        ELSE [ok |-> TRUE, marker |-> SubSeq(t, 1, len), content |-> Trim(Drop(t, len))]

parseListItem(line) ==
    LET t == TrimStart(line)
        len == IF t # << >> /\ Head(t) \in ListGlyphs \cup Bullets THEN 1
               ELSE EnumPrefixLength(t, EnumClosers)
        marker == SubSeq(t, 1, len)
        content == Trim(Drop(t, len))
        inner == EnumPrefixLength(content, EnumClosers)
    IN  IF len = 0 \/ content = << >> THEN NoListItem
        ELSE IF EnumPrefixLength(marker, EnumClosers) = 0
                /\ inner > 0 /\ Len(content) > inner
             THEN [ok |-> TRUE, marker |-> SubSeq(content, 1, inner),
                   content |-> Trim(Drop(content, inner))]
             ELSE [ok |-> TRUE, marker |-> marker, content |-> content]

\* str.slice(0, n), n counted in UTF-16 code units; "hs" is the high surrogate
\* left when the cut falls inside a two-unit character
Slice(str, n) ==
    LET whole == Cardinality({k \in DOMAIN str : JsLength(SubSeq(str, 1, k)) <= n})
    IN  SubSeq(str, 1, whole)
        \o (IF whole < Len(str) /\ JsLength(SubSeq(str, 1, whole)) < n
            THEN <<"hs">> ELSE << >>)

generateTitleNoPlaceholder(text) ==
    LET safe == Trim(ReplaceRuns(text, Spaces, 1, <<" ">>))
        first == IF safe = << >> THEN << >> ELSE Trim(Split(safe, {"stop"})[1])
    IN  IF JsLength(first) <= GeneratedTitleMax THEN first
        ELSE Slice(first, GeneratedTitleMax) \o Ellipsis

generateTitle(text) ==
    LET safe == Trim(ReplaceRuns(text, Spaces, 1, <<" ">>))
        first == Trim(Split(safe, {"stop"})[1])
    IN  IF safe = << >> THEN SummaryTitle
        ELSE IF JsLength(first) <= GeneratedTitleMax
             THEN (IF first = << >> THEN SummaryTitle ELSE first)
             ELSE Slice(first, GeneratedTitleMax) \o Ellipsis

\* The chain of replace calls of cleanTitleText, in its order
\* The replacements of cleanTitleText, one operator each, in the order taken
StripGlyph(t) ==
    IF t # << >> /\ Head(t) \in ListGlyphs \cup Bullets THEN TrimStart(Tail(t)) ELSE t

StripTitlePrefix(t) == Drop(t, TitlePrefixLength(t))

StripDots(t) == IF EndsWith(t, Ellipsis) THEN DropLast(t, 3) ELSE t

StripEllipsisChar(t) == IF EndsWith(t, <<"ell">>) THEN DropLast(t, 1) ELSE t

StripHashes(t) ==
    LET h == RunLength(t, {"#"})
    IN  IF h \in 1..6 /\ Len(t) > h /\ t[h + 1] \in Spaces
        THEN TrimStart(Drop(t, h)) ELSE t

StripBracketNumber(t) ==
    LET p == IF t # << >> /\ Head(t) = "("
             THEN RunLength(Tail(t), Numerals \cup Digits) ELSE 0
    IN  IF p >= 1 /\ Len(t) > p + 1 /\ t[p + 2] = ")"
        THEN TrimStart(Drop(t, p + 2)) ELSE t

StripDigitNumber(t) ==
    LET d == RunLength(t, Digits)
    IN  IF d \in {1, 2} /\ Len(t) > d /\ t[d + 1] \in EnumClosers
        THEN TrimStart(Drop(t, d + 1)) ELSE t

StripNumeralNumber(t) ==
    LET n == RunLength(t, Numerals)
    IN  IF n >= 1 /\ Len(t) > n /\ t[n + 1] \in {".", "dun"}
        THEN TrimStart(Drop(t, n + 1)) ELSE t

StripColon(t) == IF EndsWith(t, <<":">>) THEN DropLast(t, 1) ELSE t

cleanTitleText(text) ==
    Trim(StripColon(StripNumeralNumber(StripDigitNumber(StripBracketNumber(
        StripHashes(StripEllipsisChar(StripDots(StripTitlePrefix(StripGlyph(
            Trim(text)))))))))))

\* The label line /^(适合|适用|适用人群|人群|对象|场景|适用于)\s*[:：]\s*(.+)$/:
\* the kicker made of it, empty when the line does not match
LabelKickerAnyLength(line) ==
    LET hits == {w \in LabelWords :
                    /\ StartsWith(line, w)
                    /\ LET after == TrimStart(Drop(line, Len(w)))
                       IN  after # << >> /\ Head(after) = ":" /\ Tail(after) # << >>}
    IN  IF hits = {} THEN << >>
        ELSE LET w == CHOOSE x \in hits : TRUE
             IN  w \o <<":">> \o Trim(Tail(TrimStart(Drop(line, Len(w)))))

LabelKicker(line) ==
    LET hits == {w \in LabelWords :
                    /\ StartsWith(line, w)
                    /\ LET after == TrimStart(Drop(line, Len(w)))
                       IN  after # << >> /\ Head(after) = ":" /\ Tail(after) # << >>}
    IN  IF hits = {} \/ JsLength(line) > LabelLineMax THEN << >>
        ELSE LET w == CHOOSE x \in hits : TRUE
             IN  w \o <<":">> \o Trim(Tail(TrimStart(Drop(line, Len(w)))))

\* lines.filter((_, idx) => idx is not in drop), from line k on
Without(lines, drop) ==
    LET keep == DOMAIN lines \ drop
    IN  [i \in 1..Cardinality(keep) |-> lines[Nth(keep, i)]]

FirstNonEmpty(lines) ==
    LET full == {k \in DOMAIN lines : Trim(lines[k]) # << >>}
    IN  IF full = {} THEN 0 ELSE Min(full)

\* The stages of parseContent follow; each takes what the earlier ones computed.

\* The title, generated from the body when none was found, and the result
FinishParse(ex, title, kicker, body) ==
    LET generated == generateTitle(IF body # << >> THEN body ELSE ex.text)
    IN  After(<<kicker, body>>, [kicker |-> kicker,
         title |-> IF title # << >> THEN title
                   ELSE IF cleanTitleText(generated) # << >>
                        THEN cleanTitleText(generated) ELSE generated,
         body |-> body, tags |-> ex.tags])

\* The label line at the head of the body becomes the kicker if there is none
ExtractLabel(ex, title, kicker, bodyLines, firstBody) ==
    LET label == IF kicker = << >> /\ firstBody # 0
                 THEN LabelKicker(stripLeadingMarkers(Trim(bodyLines[firstBody])))
                 ELSE << >>
        rest == IF label # << >> THEN Without(bodyLines, {firstBody}) ELSE bodyLines
    IN  FinishParse(ex, title, IF label # << >> THEN label ELSE kicker,
                    Trim(ReplaceRuns(Join(rest), {"nl"}, 3, <<"nl", "nl">>)))

BodyLines(ex, title, kicker, bodyLines) ==
    After(<<title, kicker, bodyLines>>,
          ExtractLabel(ex, title, kicker, bodyLines, FirstNonEmpty(bodyLines)))

\* The first line is the kicker if it precedes the title line and ends with a colon
FindKicker(ex, lines, first, firstLine, title, titleIndex) ==
    LET isKicker == /\ title # << >> /\ first # 0 /\ first < titleIndex
                    /\ EndsWith(firstLine, <<":">>)
                    /\ JsLength(firstLine) <= KickerLineMax
    IN  BodyLines(ex, title,
                  IF isKicker
                  THEN Trim(DropLast(stripLeadingMarkers(firstLine), 1)) ELSE << >>,
                  Without(lines, {titleIndex, IF isKicker THEN first ELSE 0}))

\* Without a title from a title line, a short first line that is no list item
\* is the title
FirstLineTitle(ex, lines, first, firstLine, title, titleIndex) ==
    LET useFirst == /\ title = << >> /\ first # 0
                    /\ ~parseListItem(firstLine).ok
                    /\ JsLength(firstLine) <= FirstLineMax
    IN  FindKicker(ex, lines, first, firstLine,
                   IF useFirst THEN cleanTitleText(firstLine) ELSE title,
                   IF useFirst THEN first ELSE titleIndex)

\* The first line matching the title pattern gives the title
ExplicitTitle(ex, lines, first) ==
    LET explicit == {k \in DOMAIN lines :
                        TitleLineMatch(stripLeadingMarkers(lines[k])) # << >>}
    IN  FirstLineTitle(ex, lines, first,
            IF first = 0 THEN << >> ELSE Trim(lines[first]),
            IF explicit = {} THEN << >>
            ELSE cleanTitleText(TitleLineMatch(stripLeadingMarkers(lines[Min(explicit)]))),
            IF explicit = {} THEN 0 ELSE Min(explicit))

TrimEndEach(lines) == [k \in DOMAIN lines |-> TrimEnd(lines[k])]

ParseLines(ex, lines) == After(lines, ExplicitTitle(ex, lines, FirstNonEmpty(lines)))

ParseTagged(ex) == After(ex, ParseLines(ex, TrimEndEach(Split(ex.text, {"nl"}))))

parseContent(rawContent) ==
    IF Trim(rawContent) = << >>
    THEN [kicker |-> << >>, title |-> NoContentTitle, body |-> << >>, tags |-> << >>]
    ELSE ParseTagged(extractHashtags(Trim(rawContent)))

----------------------------------------------------------------------------
(* ParseSpec: parseContent and mergeTags, as drawContent calls them, on       *)
(* bounded content strings                                                   *)

MaxParts == 3      \* pieces a content string is put together from

Repeat(str, n) == [i \in 1..(n * Len(str)) |-> str[((i - 1) % Len(str)) + 1]]

\* "#t #tt #ttt ...": n different hashtags
HashtagRun(n) == Concat([k \in 1..n |-> <<"#">> \o Repeat(<<"t">>, k) \o <<" ">>])

ParseParts ==
    {<<"a">>, <<"han">>, <<"#">>, <<":">>, <<"nl">>, <<" ">>, <<"-">>, <<"stop">>,
     Ellipsis, <<"biao", "ti", ":">>,
     <<"#", "T", " ">>,
     HashtagRun(MaxMergedTags + 1),
     Repeat(<<"han">>, FirstLineMax + 1)}

Contents == {Concat(ps) : ps \in UNION {[1..n -> ParseParts] : n \in 0..MaxParts}}

CustomTags == {<< >>, <<<<"A">>>>}

InitParse ==
    /\ InitEngine
    /\ scope = NoCalls
    /\ input \in [fn : {"parseContent"}, content : Contents, customTags : CustomTags]
    /\ output = [fn |-> "none"]

\* drawContent: parsed = parseContent(content); mergedTags = mergeTags(parsed.tags,
\* customTags); hasBody
ParseContent ==
    /\ input.fn = "parseContent"
    /\ output.fn = "none"
    /\ LET parsed == parseContent(input.content)
       IN  output' = [fn |-> "parseContent", parsed |-> parsed,
                      mergedTags |-> mergeTags(parsed.tags, input.customTags),
                      hasBody |-> Trim(parsed.body) # << >>]
    /\ UNCHANGED <<isGenerating, surface, canvas, pc, req, res, inflightAtCall, scope, input>>

ParseSpec == InitParse /\ [][ParseContent]_vars

\* C8: for every content string, also one whose first line or explicit title
\* cleans to nothing and one made of hashtags or punctuation only, the title
\* parseContent returns is a non-empty string (and not blank).
C8_TitleNonEmpty ==
    output.fn = "parseContent" =>
        /\ output.parsed.title # << >>
        /\ Trim(output.parsed.title) # << >>

C8_Witness ==
    /\ output.fn = "parseContent"
    /\ output.parsed.tags # << >>
    /\ output.parsed.body = << >>
    /\ output.parsed.title = SummaryTitle

NoDuplicateKeys(tags) ==
    LET key == [k \in DOMAIN tags |-> Lower(tags[k])]
    IN  \A i, j \in DOMAIN tags : i # j => key[i] # key[j]

\* C10 as stated: the tags field parseContent returns has no case-insensitive
\* duplicates and at most 10 entries.
C10_ParsedTagsDeduplicated ==
    output.fn = "parseContent" =>
        /\ NoDuplicateKeys(output.parsed.tags)
        /\ Len(output.parsed.tags) <= MaxMergedTags

\* C10 amended: the tags field holds every hashtag of the content in order of
\* occurrence; the list drawContent draws, mergeTags(parsed.tags, customTags),
\* has no case-insensitive duplicates, at most 10 entries, and keeps a spelling
\* of every hashtag until the 10 are reached.
C10_DrawnTagsDeduplicated ==
    output.fn = "parseContent" =>
        /\ output.parsed.tags = ScanHashtags(Trim(input.content)).tags
        /\ NoDuplicateKeys(output.mergedTags)
        /\ Len(output.mergedTags) <= MaxMergedTags
        /\ Len(output.mergedTags) < MaxMergedTags =>
              \A k \in DOMAIN output.parsed.tags :
                  \E i \in DOMAIN output.mergedTags :
                      Lower(output.mergedTags[i]) = Lower(output.parsed.tags[k])

C10_Witness ==
    /\ output.fn = "parseContent"
    /\ Len(output.parsed.tags) > MaxMergedTags
    /\ ~NoDuplicateKeys(output.parsed.tags)
    /\ Len(output.mergedTags) = MaxMergedTags

----------------------------------------------------------------------------
(* Text layout.  Horizontal lengths are in tenths of a pixel, vertical ones  *)
(* in hundredths, so that the fractions the code computes are integers.      *)

\* Math.round(n / d) for n >= 0, d > 0
Round(n, d) == (2 * n + d) \div (2 * d)

\* The advance of a character in tenths of an em: what ctx.measureText adds up
\* for a font with full-width ideographs and 0.6 em Latin letters and digits.
CharEm(ch) ==
    CASE ch \in Latin \cup Digits \cup {"#", "_"} -> 6
      [] ch \in {" ", "."} -> 3
      [] ch \in {"-", "(", ")"} -> 4
      [] OTHER -> 10

SumEm(str) ==
    LET count(em) == Cardinality({k \in DOMAIN str : CharEm(str[k]) = em})
    IN  3 * count(3) + 4 * count(4) + 6 * count(6) + 10 * count(10)

\* ctx.measureText(text).width with ctx.font at fontSize px
measureText(text, fontSize) == fontSize * SumEm(text)

Px(n) == 10 * n

WordChars == Latin \cup Digits        \* [A-Za-z0-9]

\* Tokens: a run of word characters, one blank for a run of white space, and
\* every other character on its own.
tokenizeForWrap(text) ==
    LET starts == {k \in DOMAIN text :
                      \/ k = 1
                      \/ text[k] \notin Spaces \cup WordChars
                      \/ text[k] \in Spaces /\ text[k - 1] \notin Spaces
                      \/ text[k] \in WordChars /\ text[k - 1] \notin WordChars}
        token(s) == IF text[s] \in Spaces THEN <<" ">>
                    ELSE IF text[s] \in WordChars
                         THEN SubSeq(text, s, s + RunLength(Drop(text, s - 1), WordChars) - 1)
                    ELSE <<text[s]>>
    IN  [i \in 1..Cardinality(starts) |-> token(Nth(starts, i))]

\* /^[，。！？、；：:,.!?;)\]\}》）”’…%]$/
ClosingPunctuation == {"stop", "dun", ":", ".", ")", "ell"}
isPunctuation(token) == Len(token) = 1 /\ token[1] \in ClosingPunctuation

pushLine(result, line) ==
    IF TrimEnd(line) # << >> THEN Append(result, TrimEnd(line)) ELSE result

\* str.slice(-1) and str.slice(0, -1), in UTF-16 code units: they cut an
\* astral character into its surrogates "hs" and "ls"
LastUnit(str) == IF str[Len(str)] = "emoji" THEN <<"ls">> ELSE <<str[Len(str)]>>
ButLastUnit(str) ==
    DropLast(str, 1) \o (IF str[Len(str)] = "emoji" THEN <<"hs">> ELSE << >>)

\* One turn of the tokens.forEach of wrapCanvasText on w = [result, current]
WrapToken(w, token, maxWidth, fontSize) ==
    LET testLine == w.current \o token
        trimmedCurrent == TrimEnd(w.current)
    IN  IF token = <<" ">> /\ w.current = << >> THEN w
        ELSE IF /\ w.current = << >>
                /\ w.result # << >>
                /\ isPunctuation(token)
                /\ measureText(w.result[Len(w.result)] \o token, fontSize) <= maxWidth
             THEN [w EXCEPT !.result[Len(w.result)] = @ \o token]
        ELSE IF measureText(testLine, fontSize) > maxWidth /\ w.current # << >>
             THEN IF isPunctuation(token) /\ JsLength(trimmedCurrent) > 1
                  THEN [result |-> pushLine(w.result, ButLastUnit(trimmedCurrent)),
                        current |-> LastUnit(trimmedCurrent) \o token]
                  ELSE [result |-> pushLine(w.result, trimmedCurrent),
                        current |-> IF token = <<" ">> THEN << >> ELSE token]
        ELSE [w EXCEPT !.current = testLine]

\* tokens.forEach of wrapCanvasText
WrapTokens(w, tokens, maxWidth, fontSize) ==
    FoldLeft(LAMBDA v, token : WrapToken(v, token, maxWidth, fontSize), w, tokens)

wrapCanvasText(text, maxWidth, fontSize) ==
    LET w == WrapTokens([result |-> << >>, current |-> << >>],
                        tokenizeForWrap(text), maxWidth, fontSize)
        result == IF Trim(w.current) # << >> THEN pushLine(w.result, w.current)
                  ELSE w.result
    IN  IF result # << >> THEN result ELSE <<<< >>>>

\* The longest prefix of raw, in whole characters, no wider than targetWidth
FitPrefix(raw, targetWidth, fontSize) ==
    SubSeq(raw, 1, Cardinality({n \in DOMAIN raw :
                                   measureText(SubSeq(raw, 1, n), fontSize) <= targetWidth}))

fitTextToWidth(text, maxWidth, forceEllipsis, fontSize) ==
    LET raw == Trim(text)
        targetWidth == Max({0, maxWidth - measureText(Ellipsis, fontSize)})
        result == FitPrefix(raw, targetWidth, fontSize)
    IN  IF raw = << >> THEN << >>
        ELSE IF ~forceEllipsis /\ measureText(raw, fontSize) <= maxWidth THEN raw
        ELSE IF result # << >> THEN result \o Ellipsis
        ELSE Slice(raw, 1) \o Ellipsis

wrapTitleLines(text, maxWidth, maxLines, fontSize) ==
    LET raw == Trim(ReplaceRuns(text, Spaces, 1, <<" ">>))
        lines == wrapCanvasText(raw, maxWidth, fontSize)
        head == SubSeq(lines, 1, maxLines)
    IN  IF raw = << >> THEN <<SummaryTitle>>
        ELSE IF Len(lines) <= maxLines THEN lines
        ELSE [head EXCEPT ![maxLines] = fitTextToWidth(@, maxWidth, TRUE, fontSize)]

HeadingLineMax == 12

BlankLine == [type |-> "blank", marker |-> << >>, listGroup |-> 0, indent |-> 0,
              text |-> << >>]
NoLine == [BlankLine EXCEPT !.type = "none"]

TextLines(wrapped, marker, listGroup, indent) ==
    [k \in DOMAIN wrapped |->
        [type |-> "text", marker |-> IF k = 1 THEN marker ELSE << >>,
         listGroup |-> listGroup, indent |-> indent, text |-> wrapped[k]]]

\* What a raw line is laid out as: blank, a heading, a list item or a paragraph
RawLineKind(rawLine) ==
    LET line == Trim(rawLine)
    IN  IF line = << >> THEN "blank"
        ELSE IF /\ JsLength(line) <= HeadingLineMax
                /\ line[Len(line)] = ":"
                /\ Trim(DropLast(line, 1)) # << >>
             THEN "heading"
        ELSE IF parseListItem(line).ok THEN "list"
        ELSE "text"

\* One turn of the rawLines.forEach of layoutTextLines, listGroupSeq being the
\* list items met before this line
LayoutRawLine(rawLine, listGroupSeq, maxWidth, fontSize) ==
    LET line == Trim(rawLine)
        kind == RawLineKind(rawLine)
        listItem == parseListItem(line)
        indent == measureText(listItem.marker, fontSize) + Px(10)
    IN  IF kind = "blank" THEN <<BlankLine>>
        ELSE IF kind = "heading"
             THEN <<[BlankLine EXCEPT !.type = "heading", !.text = Trim(DropLast(line, 1))]>>
        ELSE IF kind = "list"
             THEN TextLines(wrapCanvasText(listItem.content, maxWidth - indent, fontSize),
                            listItem.marker, listGroupSeq + 1, indent)
        ELSE TextLines(wrapCanvasText(line, maxWidth, fontSize), << >>, 0, 0)

\* The rawLines.forEach of layoutTextLines, listGroupSeq being the list items
\* met so far
LayoutRawLines(rawLines, listGroupSeq, maxWidth, fontSize) ==
    LET lists == {k \in DOMAIN rawLines : RawLineKind(rawLines[k]) = "list"}
    IN  Concat([k \in DOMAIN rawLines |->
                   LayoutRawLine(rawLines[k],
                                 listGroupSeq + Cardinality({j \in lists : j < k}),
                                 maxWidth, fontSize)])

layoutTextLines(text, maxWidth, fontSize) ==
    LET lines == LayoutRawLines(Split(text, {"nl"}), 0, maxWidth, fontSize)
        keep == {k \in DOMAIN lines : lines[k].type # "blank"}
    IN  IF keep = {} THEN << >> ELSE SubSeq(lines, Min(keep), Max(keep))

----------------------------------------------------------------------------
(* Geometry of a card in design coordinates                                  *)

AspectRatios == {"9:16", "1:1", "4:5", "16:9"}

getDesignDimensions(aspectRatio) ==
    CASE aspectRatio = "1:1" -> [width |-> 540, height |-> 540]
      [] aspectRatio = "4:5" -> [width |-> 540, height |-> 675]
      [] aspectRatio = "16:9" -> [width |-> 960, height |-> 540]
      [] OTHER -> [width |-> 540, height |-> 960]

BodyFontSize(imageStyle) ==
    CASE ProfileKey(imageStyle) = "realistic" -> 17
      [] ProfileKey(imageStyle) = "illustration" -> 18
      [] ProfileKey(imageStyle) = "minimalist" -> 16
      [] ProfileKey(imageStyle) = "artistic" -> 18

LineHeight(imageStyle) ==
    CASE ProfileKey(imageStyle) = "realistic" -> 27
      [] ProfileKey(imageStyle) = "illustration" -> 30
      [] ProfileKey(imageStyle) = "minimalist" -> 30
      [] ProfileKey(imageStyle) = "artistic" -> 29

KickerFontSize == 14
TitleMaxLines == 2

\* panelW - innerPaddingX * 2 of drawTitle
TitleInnerWidth(baseWidth) ==
    Px(Max({0, Max({0, baseWidth - Round(baseWidth * 40, 540) * 2})
               - Round(baseWidth * 20, 540) * 2}))

\* The box of the title panel, from the title lines and the kicker
TitlePanel(kicker, titleLines, baseWidth, baseHeight) ==
    LET panelY == Round(baseHeight * 64, 960)
        titleStartOffset == IF kicker # << >> THEN Round(40 * baseHeight, 960)
                            ELSE Round(18 * baseHeight, 960)
        lastLineTop == (Len(titleLines) - 1) * Round(34 * baseHeight, 960)
        desiredPanelH == titleStartOffset + lastLineTop + Round(32 * baseHeight, 960)
                         + Round(22 * baseHeight, 960)
        minPanelH == IF kicker # << >> THEN Round(104 * baseHeight, 960)
                     ELSE Round(86 * baseHeight, 960)
    IN  [titleLines |-> titleLines,
         kickerFit |-> IF kicker # << >>
                       THEN fitTextToWidth(kicker, TitleInnerWidth(baseWidth), FALSE,
                                           KickerFontSize)
                       ELSE << >>,
         innerWidth |-> TitleInnerWidth(baseWidth),
         fontSize |-> Round(30 * baseHeight, 960),
         x |-> Round(baseWidth * 40, 540), y |-> panelY,
         width |-> Max({0, baseWidth - Round(baseWidth * 40, 540) * 2}),
         height |-> Max({desiredPanelH, minPanelH}),
         bottomY |-> panelY + Max({desiredPanelH, minPanelH})]

\* The title panel: the lines drawn and the panel's box
drawTitle(parsed, baseWidth, baseHeight) ==
    TitlePanel(Trim(parsed.kicker),
               wrapTitleLines(Trim(parsed.title), TitleInnerWidth(baseWidth),
                              TitleMaxLines, Round(30 * baseHeight, 960)),
               baseWidth, baseHeight)

TagFontSize == 14
TagMinLimit == 120
TagPadding == 20
TagGap == 10
TagRowSpacing == 35
TagHeight == 25
TagReserveGap == 18

NoTagLayout == [rows |-> << >>, totalHeight |-> 0]

\* The safeTags.forEach of getTagLayout: rows are the rows pushed so far,
\* currentRow the one being filled and x its width
TagRow(acc, tag, limit) ==
    LET safeTag == NormalizeTag(tag)
        tagWidth == measureText(<<"#">> \o safeTag, TagFontSize) + Px(TagPadding)
    IN  IF safeTag = << >> THEN acc
        ELSE IF acc.currentRow # << >> /\ acc.x + tagWidth > limit
             THEN [rows |-> Append(acc.rows, acc.currentRow), currentRow |-> <<safeTag>>,
                   x |-> tagWidth + Px(TagGap)]
        ELSE [rows |-> acc.rows, currentRow |-> Append(acc.currentRow, safeTag),
              x |-> acc.x + tagWidth + Px(TagGap)]

TagRows(tags, rows, currentRow, x, limit) ==
    LET acc == FoldLeft(LAMBDA a, tag : TagRow(a, tag, limit),
                        [rows |-> rows, currentRow |-> currentRow, x |-> x], tags)
    IN  IF acc.currentRow # << >> THEN Append(acc.rows, acc.currentRow) ELSE acc.rows

getTagLayout(tags, maxWidth) ==
    LET rows == TagRows(tags, << >>, << >>, 0, Px(Max({TagMinLimit, maxWidth})))
    IN  IF rows = << >> THEN NoTagLayout
        ELSE [rows |-> rows,
              totalHeight |-> (Len(rows) - 1) * TagRowSpacing + TagHeight]

PanelPaddingY == 28

heightOfBase(item, lineHeight) ==
    CASE item.type = "blank" -> Round(lineHeight * 7, 10)
      [] item.type = "heading" -> Round(lineHeight * 105, 100)
      [] OTHER -> lineHeight

\* prev and next are NoLine where the code has null
heightWithContext(item, prev, next, lineHeight) ==
    heightOfBase(item, lineHeight)
    + (IF item.type = "heading" /\ prev.type \notin {"none", "blank"}
       THEN Round(lineHeight * 25, 100) ELSE 0)
    + (IF /\ item.type = "text"
          /\ item.listGroup # 0
          /\ (next.type = "none" \/ next.listGroup # item.listGroup)
       THEN Round(lineHeight * 14, 100) ELSE 0)

LineAt(lines, k) == IF k \in DOMAIN lines THEN lines[k] ELSE NoLine

\* The heights of the lines from idx on, added up
TotalHeight(lineItems, idx, lineHeight) ==
    FoldLeft(LAMBDA sum, k : sum + heightWithContext(lineItems[k], LineAt(lineItems, k - 1),
                                                     LineAt(lineItems, k + 1), lineHeight),
             0, Range(idx, Len(lineItems)))

\* One turn, on line i, of the loop that fills toDraw: y and yMax in
\* hundredths of a pixel.  On overflow the last accepted line is rewritten if
\* it is a text line.
AcceptLine(acc, lineItems, i, yMax, lineHeight, maxWidth, fontSize) ==
    LET item == lineItems[i]
        prev == LineAt(acc.toDraw, Len(acc.toDraw))
        next == LineAt(lineItems, i + 1)
        nextY == acc.y + 100 * heightWithContext(item, prev, next, lineHeight)
    IN  IF acc.overflow THEN acc
        ELSE IF nextY > yMax
        THEN [toDraw |->
                IF acc.toDraw # << >> /\ prev.type = "text"
                THEN [acc.toDraw EXCEPT ![Len(acc.toDraw)].text =
                         fitTextToWidth(@, maxWidth - prev.indent, TRUE, fontSize)]
                ELSE acc.toDraw,
              y |-> acc.y, overflow |-> TRUE]
        ELSE [toDraw |-> Append(acc.toDraw, item), y |-> nextY, overflow |-> FALSE]

\* The loop from line i on, AcceptLine being one turn of it; once it has
\* overflowed the loop is left
AcceptLines(lineItems, i, y, toDraw, yMax, lineHeight, maxWidth, fontSize) ==
    LET acc == FoldLeft(LAMBDA a, k : AcceptLine(a, lineItems, k, yMax, lineHeight,
                                                 maxWidth, fontSize),
                        [toDraw |-> toDraw, y |-> y, overflow |-> FALSE],
                        Range(i, Len(lineItems)))
    IN  [toDraw |-> acc.toDraw, overflow |-> acc.overflow]

\* The stages of drawMainContent follow; each takes what the earlier ones computed.

\* The mutant: one minimum height for every body length
PanelFrameOneTier(imageStyle, titleMetrics, contentLength, baseWidth, baseHeight) ==
    LET panelX == Round(baseWidth * 40, 540)
        paddingX == Round(baseWidth * 24, 540)
        contentBottom == baseHeight
                         - (IF DecorationLevel(imageStyle) = "none" THEN 72 ELSE 90)
        minPanelH == 240
        boost == (IF contentLength > 0 /\ contentLength < 120 THEN 1 ELSE 0)
                 + (IF contentLength > 0 /\ contentLength < 70 THEN 1 ELSE 0)
    IN  [x |-> panelX, width |-> Max({0, baseWidth - panelX * 2}),
         y |-> Min({titleMetrics.bottomY + 16, contentBottom - minPanelH}),
         contentBottom |-> contentBottom, minPanelH |-> minPanelH,
         fontSize |-> BodyFontSize(imageStyle) + 2 * boost,
         lineHeight |-> LineHeight(imageStyle)
                        + (IF boost >= 1 THEN 4 ELSE 0) + (IF boost = 2 THEN 2 ELSE 0),
         maxWidth |-> Px(Max({0, baseWidth - panelX * 2}) - paddingX * 2)]

\* The panel's left edge and width, its top, and the font of the body
PanelFrame(imageStyle, titleMetrics, contentLength, baseWidth, baseHeight) ==
    LET panelX == Round(baseWidth * 40, 540)
        paddingX == Round(baseWidth * 24, 540)
        contentBottom == baseHeight
                         - (IF DecorationLevel(imageStyle) = "none" THEN 72 ELSE 90)
        minPanelH == IF contentLength > 260 THEN 360
                     ELSE IF contentLength > 160 THEN 320
                     ELSE IF contentLength > 90 THEN 280
                     ELSE IF contentLength > 0 THEN 240
                     ELSE IF BackgroundMode(imageStyle) = "minimal" THEN 220
                     ELSE 240
        boost == (IF contentLength > 0 /\ contentLength < 120 THEN 1 ELSE 0)
                 + (IF contentLength > 0 /\ contentLength < 70 THEN 1 ELSE 0)
    IN  [x |-> panelX, width |-> Max({0, baseWidth - panelX * 2}),
         y |-> Min({titleMetrics.bottomY + 16, contentBottom - minPanelH}),
         contentBottom |-> contentBottom, minPanelH |-> minPanelH,
         fontSize |-> BodyFontSize(imageStyle) + 2 * boost,
         lineHeight |-> LineHeight(imageStyle)
                        + (IF boost >= 1 THEN 4 ELSE 0) + (IF boost = 2 THEN 2 ELSE 0),
         maxWidth |-> Px(Max({0, baseWidth - panelX * 2}) - paddingX * 2)]

\* The loop over lineItems and what drawMainContent returns
PanelDraw(frame, lineItems, totalHeight, panelH, appliedReserve) ==
    LET yMin == frame.y + PanelPaddingY
        yMax == frame.y + panelH - PanelPaddingY - appliedReserve
        y0 == IF totalHeight > 0 /\ totalHeight * 10 < (yMax - yMin) * 7
              THEN 100 * yMin
                   + Min({(yMax - yMin - totalHeight) * 26, frame.lineHeight * 220})
              ELSE 100 * yMin
        accepted == AcceptLines(lineItems, 1, y0, << >>, 100 * yMax, frame.lineHeight,
                                frame.maxWidth, frame.fontSize)
    IN  [drawn |-> TRUE, x |-> frame.x, y |-> frame.y, width |-> frame.width,
         height |-> panelH, innerWidth |-> frame.maxWidth, innerYMin |-> yMin,
         innerYMax |-> yMax, reservedBottomHeight |-> appliedReserve,
         fontSize |-> frame.fontSize, lineHeight |-> frame.lineHeight,
         lineItems |-> lineItems, toDraw |-> accepted.toDraw,
         overflow |-> accepted.overflow, textTop |-> y0]

\* The panel's height and the room kept for the tags
PanelHeight(frame, lineItems, totalHeight, reservedBottomHeight) ==
    LET panelH == Min({frame.contentBottom - frame.y,
                       Max({frame.minPanelH,
                            PanelPaddingY * 2 + totalHeight + reservedBottomHeight})})
        maxReserve == Max({0, panelH - PanelPaddingY * 2
                              - Round(frame.lineHeight * 46, 10)})
    IN  PanelDraw(frame, lineItems, totalHeight, panelH,
                  Min({reservedBottomHeight, maxReserve}))

PanelLines(frame, lineItems, reservedBottomHeight) ==
    PanelHeight(frame, lineItems, TotalHeight(lineItems, 1, frame.lineHeight),
                reservedBottomHeight)

PanelBody(body, frame, reservedBottomHeight) ==
    PanelLines(frame, layoutTextLines(body, frame.maxWidth, frame.fontSize),
               reservedBottomHeight)

drawMainContent(parsed, imageStyle, titleMetrics, reservedBottomHeight, baseWidth, baseHeight) ==
    PanelBody(Trim(parsed.body),
              PanelFrame(imageStyle, titleMetrics, JsLength(Trim(parsed.body)),
                         baseWidth, baseHeight),
              reservedBottomHeight)

NoPanel ==
    [drawn |-> FALSE, x |-> 0, y |-> 0, width |-> 0, height |-> 0, innerWidth |-> 0,
     innerYMin |-> 0, innerYMax |-> 0, reservedBottomHeight |-> 0, fontSize |-> 0,
     lineHeight |-> 0, lineItems |-> << >>, toDraw |-> << >>, overflow |-> FALSE,
     textTop |-> 0]

\* The stages of drawContent

\* The content panel, drawn if there is a body, with room kept for the tags
LayoutPanel(parsed, mergedTags, imageStyle, design, titleMetrics, tagLayout) ==
    [fn |-> "drawContent", parsed |-> parsed, mergedTags |-> mergedTags,
     hasBody |-> Trim(parsed.body) # << >>, title |-> titleMetrics,
     tagLayout |-> tagLayout,
     panel |-> IF Trim(parsed.body) # << >>
               THEN drawMainContent(parsed, imageStyle, titleMetrics,
                                    IF mergedTags # << >>
                                    THEN tagLayout.totalHeight + TagReserveGap ELSE 0,
                                    design.width, design.height)
               ELSE NoPanel]

\* The rows of tags, laid out before the panel if there are tags and a body
LayoutTags(parsed, mergedTags, imageStyle, design) ==
    LET outerMarginX == Round(design.width * 40, 540)
        paddingX == Round(design.width * 24, 540)
    IN  LayoutPanel(parsed, mergedTags, imageStyle, design,
                    drawTitle(parsed, design.width, design.height),
                    IF mergedTags # << >> /\ Trim(parsed.body) # << >>
                    THEN getTagLayout(mergedTags,
                                      Max({0, Max({0, design.width - outerMarginX * 2})
                                              - paddingX * 2}))
                    ELSE NoTagLayout)

LayoutParsed(parsed, customTags, imageStyle, design) ==
    LayoutTags(parsed, mergeTags(parsed.tags, customTags), imageStyle, design)

NoTags == [drawn |-> FALSE, inPanel |-> FALSE, y |-> 0, rows |-> << >>, totalHeight |-> 0]

\* The block of tag rows drawTags draws: inside the panel at its bottom, or
\* from anchorY when there is no panel.  layout is NoTagLayout where the
\* caller passes none.
drawTags(tags, panel, layout, anchorY) ==
    LET laid == IF layout.rows # << >> THEN layout
                ELSE getTagLayout(tags, IF panel.drawn THEN panel.innerWidth \div 10
                                        ELSE 420)
        baseY == IF panel.drawn
                 THEN Max({panel.y + panel.height - PanelPaddingY - laid.totalHeight,
                           panel.y + PanelPaddingY + 12})
                 ELSE anchorY
    IN  IF tags = << >> \/ laid.rows = << >> THEN NoTags
        ELSE [drawn |-> TRUE, inPanel |-> panel.drawn, y |-> baseY,
              rows |-> laid.rows, totalHeight |-> laid.totalHeight]

\* anchorY: (titleMetrics?.bottomY || 180) + 22
TagAnchorFixed(titleMetrics) == 180 + 22

TagAnchor(titleMetrics) == titleMetrics.bottomY + 22

\* The tags, drawn after the title and the panel
LayoutDrawTags(laid) ==
    [fn |-> laid.fn, parsed |-> laid.parsed, mergedTags |-> laid.mergedTags,
     hasBody |-> laid.hasBody, title |-> laid.title, tagLayout |-> laid.tagLayout,
     panel |-> laid.panel,
     tags |-> IF laid.mergedTags = << >> THEN NoTags
              ELSE IF laid.panel.drawn
              THEN drawTags(laid.mergedTags, laid.panel, laid.tagLayout, 0)
              ELSE drawTags(laid.mergedTags, NoPanel, NoTagLayout, TagAnchor(laid.title))]

\* What drawContent lays out for a content string
drawContent(content, customTags, imageStyle, aspectRatio) ==
    LayoutDrawTags(LayoutParsed(parseContent(content), customTags, imageStyle,
                                getDesignDimensions(aspectRatio)))

----------------------------------------------------------------------------
(* LayoutSpec: drawContent on bodies long enough to fill the content panel   *)

Repeats == 6          \* times the pattern is repeated
LongRunLength == 45    \* letters or digits of a run wider than every panel

LineUnits ==
    {<<"a">>, <<"han", ":">>, << >>, <<"-", " ", "a">>,
     Repeat(<<"1">>, LongRunLength),
     Repeat(<<"han">>, 20) \o <<"stop">>}

\* A body repeats one line or a pair of lines
Patterns == {<<u>> : u \in LineUnits} \cup {<<u, v>> : u \in LineUnits, v \in LineUnits}

RepeatLines(pattern, n) == Repeat(pattern, n)

LayoutTitles == {<<"a">>, Repeat(<<"han">>, FirstLineMax)}
LayoutTagLines == {<< >>, <<"nl", "#", "t">>}

LayoutContents ==
    {<<"biao", "ti", ":">> \o title \o <<"nl">> \o Join(RepeatLines(pattern, n)) \o tagLine :
        title \in LayoutTitles, pattern \in Patterns, n \in {1, Repeats},
        tagLine \in LayoutTagLines}

InitLayout ==
    /\ InitEngine
    /\ scope = NoCalls
    /\ input \in [fn : {"drawContent"}, content : LayoutContents,
                  customTags : {<< >>},
                  imageStyle : StyleNames \ {"unknown"},
                  aspectRatio : AspectRatios]
    /\ output = [fn |-> "none"]

DrawContent ==
    /\ input.fn = "drawContent"
    /\ output.fn = "none"
    /\ output' = drawContent(input.content, input.customTags, input.imageStyle,
                             input.aspectRatio)
    /\ UNCHANGED <<isGenerating, surface, canvas, pc, req, res, inflightAtCall, scope, input>>

LayoutSpec == InitLayout /\ [][DrawContent]_vars

\* The width a drawn text line takes from the panel's inner left edge: its
\* marker and gap (the indent) and its text
DrawnWidth(item, fontSize) == item.indent + measureText(item.text, fontSize)

\* C6: every text line drawn in the content panel, a line that is one long
\* run of letters or digits, a line changed by the closing-punctuation rule
\* and a last line rewritten with an ellipsis included, is no wider, marker
\* and indent included, than the panel's inner width.
C6_TextLinesWithinBudget ==
    output.fn = "drawContent" /\ output.panel.drawn =>
        LET panel == output.panel
        IN  \A k \in DOMAIN panel.toDraw :
                panel.toDraw[k].type = "text" =>
                    DrawnWidth(panel.toDraw[k], panel.fontSize) <= panel.innerWidth

\* C7: when a wrapped line of the body is dropped because the panel is full,
\* the last line drawn ends with an ellipsis, whatever its type.
C7_OverflowEndsWithEllipsis ==
    output.fn = "drawContent" /\ output.panel.drawn /\ output.panel.overflow =>
        LET toDraw == output.panel.toDraw
        IN  /\ toDraw # << >>
            /\ EndsWith(toDraw[Len(toDraw)].text, Ellipsis)

----------------------------------------------------------------------------
(* KickerSpec: parseContent on contents with a short line before the title   *)
(* line and a label line at the head of the body                             *)

MaxLineLength == 41     \* the longest lead or label line

LineLengths ==
    {n \in {1, KickerLineMax - 1, KickerLineMax, KickerLineMax + 1,
            LabelLineMax - 1, LabelLineMax, LabelLineMax + 1} : n <= MaxLineLength}
    \cup {MaxLineLength}

\* A line of n characters ending with a colon, with and without a bullet
LeadLines ==
    {<< >>} \cup {Repeat(<<"han">>, n - 1) \o <<":">> : n \in LineLengths \ {1}}
    \cup {<<"-", " ">> \o Repeat(<<"han">>, KickerLineMax - 3) \o <<":">>}

KickerTitleLines == {<< >>, <<"biao", "ti", ":", "a">>, <<"a">>}

\* A label line of n characters
LabelLines ==
    {<< >>} \cup UNION {{w \o <<":">> \o Repeat(<<"han">>, n - Len(w) - 1) :
                             n \in {m \in LineLengths : m > Len(w) + 1}} :
                         w \in LabelWords}

NonEmptyLines(lines) == SelectSeq(lines, LAMBDA l : l # << >>)

KickerContents ==
    {Join(NonEmptyLines(<<lead, title, label, tail>>)) :
        lead \in LeadLines, title \in KickerTitleLines, label \in LabelLines,
        tail \in {<< >>, <<"han">>}}

InitKicker ==
    /\ InitEngine
    /\ scope = NoCalls
    /\ input \in [fn : {"parseContent"}, content : KickerContents, customTags : {<< >>}]
    /\ output = [fn |-> "none"]

KickerSpec == InitKicker /\ [][ParseContent]_vars

\* C11 as stated: the kicker parseContent returns is at most 20 characters
\* long, whichever heuristic produced it.
C11_KickerAtMost20 ==
    output.fn = "parseContent" => JsLength(output.parsed.kicker) <= KickerLineMax

\* The kicker has the shape of a promoted label: a label word, a colon, text
IsLabelKicker(kicker) ==
    \E w \in LabelWords :
        StartsWith(kicker, w \o <<":">>) /\ Len(kicker) > Len(w) + 1

\* C11 amended: a kicker taken from the short colon-terminated line before
\* the title line is shorter than 20 characters; a kicker promoted from a
\* label line of the body is at most 40 characters long.
C11_KickerWithinLimits ==
    output.fn = "parseContent" =>
        /\ JsLength(output.parsed.kicker) <= LabelLineMax
        /\ ~IsLabelKicker(output.parsed.kicker) =>
               JsLength(output.parsed.kicker) < KickerLineMax

C11_Witness ==
    /\ output.fn = "parseContent"
    /\ IsLabelKicker(output.parsed.kicker)
    /\ JsLength(output.parsed.kicker) = LabelLineMax

----------------------------------------------------------------------------
(* The batch of ImageGenerator.generateWithVisualGenerator: which sections   *)
(* become cards                                                              *)

\* str.replace(/\s+/g, '')
WithoutSpaces(str) == SelectSeq(str, LAMBDA ch : ch \notin Spaces)

isHashtagOnlyContent(text) ==
    \/ Trim(text) = << >>
    \/ /\ extractHashtags(Trim(text)).tags # << >>
       /\ WithoutSpaces(extractHashtags(Trim(text)).text) = << >>

\* The positions in sections of the sections kept by the usableSections filter
UsableSections(sections) ==
    SelectSeq([k \in DOMAIN sections |-> k],
              LAMBDA k : /\ sections[k].content # << >>
                         /\ ~isHashtagOnlyContent(sections[k].content))

cleanSectionTitle(rawTitle) ==
    IF Trim(rawTitle) = << >> THEN << >>
    ELSE cleanTitleText(Trim(Split(Trim(rawTitle), {"nl"})[1]))

\* lines.join('\n').trim() of the header lines and the body
HeaderAndBody(title, kicker, body) ==
    LET head == (IF title # << >> THEN <<<<"biao", "ti", ":">> \o title>> ELSE << >>)
                \o (IF kicker # << >> THEN <<kicker>> ELSE << >>)
    IN  Trim(Join(head \o (IF body = << >> THEN << >>
                           ELSE IF head # << >> THEN <<<< >>, body>> ELSE <<body>>)))

TrimmedLines(str) ==
    LET lines == Split(str, {"nl"})
    IN  NonEmptyLines([k \in DOMAIN lines |-> Trim(lines[k])])

CleanHeader(safeRaw, parsed, fallbackTitle) ==
    IF Trim(parsed.body) = << >> /\ Len(TrimmedLines(safeRaw)) <= 1 THEN safeRaw
    ELSE HeaderAndBody(IF Trim(parsed.title) # << >> THEN Trim(parsed.title)
                       ELSE cleanSectionTitle(fallbackTitle),
                       Trim(parsed.kicker), Trim(parsed.body))

CleanParsed(safeRaw, parsed, fallbackTitle) ==
    After(parsed, CleanHeader(safeRaw, parsed, fallbackTitle))

buildCleanContent(rawText, fallbackTitle) ==
    IF Trim(rawText) = << >> THEN << >>
    ELSE After(rawText, CleanParsed(Trim(rawText), parseContent(Trim(rawText)), fallbackTitle))

\* body.split('\n').slice(1).join('\n').trim()
AfterFirstLine(body) == Trim(Join(Tail(Split(body, {"nl"}))))

buildContentWithHeader(header, bodyText) ==
    HeaderAndBody(IF cleanSectionTitle(header.title) # << >>
                  THEN cleanSectionTitle(header.title) ELSE Trim(header.title),
                  Trim(header.kicker),
                  IF Trim(header.kicker) # << >>
                     /\ Len(Trim(bodyText)) >= Len(Trim(header.kicker))
                     /\ SubSeq(Trim(bodyText), 1, Len(Trim(header.kicker))) = Trim(header.kicker)
                  THEN AfterFirstLine(Trim(bodyText)) ELSE Trim(bodyText))

CoverMaxLines == 6
CoverLineMax == 46

CoverLine(line) ==
    IF JsLength(line) > CoverLineMax THEN Slice(line, CoverLineMax) \o Ellipsis ELSE line

\* The lines collected from the sections in order, at most CoverMaxLines
RECURSIVE CoverLines(_, _)
CoverLines(contents, collected) ==
    IF contents = << >> \/ Len(collected) >= CoverMaxLines
    THEN SubSeq(collected, 1, Min({Len(collected), CoverMaxLines}))
    ELSE LET lines == TrimmedLines(Trim(Head(contents)))
         IN  CoverLines(Tail(contents),
                        collected \o [k \in DOMAIN lines |-> CoverLine(lines[k])])

buildCoverSummaryBody(contents) == Trim(Join(CoverLines(contents, << >>)))

deriveTitleFromBody(bodyText) ==
    IF TrimmedLines(bodyText) = << >> THEN << >>
    ELSE cleanSectionTitle(TrimmedLines(bodyText)[1])

\* `${template.name} - ${index + 1}`
TemplateTitle(index) == <<"T", " ", "-", " ", ToString(index + 1)>>
CoverTitle == <<"feng", "mian">>                              \* '封面'

\* /(?:^|\n)\s*(适合|...|适用于)\s*[:：]/ on one line
LabelSignal(line) ==
    \E w \in LabelWords :
        /\ StartsWith(TrimStart(line), w)
        /\ LET after == TrimStart(Drop(TrimStart(line), Len(w)))
           IN  after # << >> /\ Head(after) = ":"

headerSignals(firstRaw, firstParsed) ==
    \/ \E k \in DOMAIN Split(firstRaw, {"nl"}) :
          LET line == stripLeadingMarkers(Split(firstRaw, {"nl"})[k])
          IN  TitlePrefixLength(line) > 0 \/ LabelSignal(line)
    \/ Trim(firstParsed.kicker) # << >>

HeaderBodyMax == 16
HeaderLinesMax == 3
NoHeader == [found |-> FALSE, title |-> << >>, kicker |-> << >>]

HeaderOf(firstRaw, firstParsed) ==
    IF /\ headerSignals(firstRaw, firstParsed)
       /\ Trim(firstParsed.title) # << >>
       /\ JsLength(Trim(firstParsed.body)) < HeaderBodyMax
       /\ Len(TrimmedLines(firstRaw)) <= HeaderLinesMax
    THEN [found |-> TRUE, title |-> Trim(firstParsed.title),
          kicker |-> Trim(firstParsed.kicker)]
    ELSE NoHeader

\* The global header found in the first usable section, when there are several
globalHeader(sections, usable) ==
    IF Len(usable) > 1
    THEN HeaderOf(Trim(sections[usable[1]].content),
                  parseContent(Trim(sections[usable[1]].content)))
    ELSE NoHeader

NoSection == 0 - 1

\* One card of the batch. section is the position in sections of the section
\* its text was taken from, 0 when the text is the whole content or the cover
\* summary; sectionOriginalIndex is the index the task reports.
Task(index, section, original, sectionTitle, contentToRender) ==
    [index |-> index, section |-> section, sectionOriginalIndex |-> original,
     sectionTitle |-> sectionTitle, contentToRender |-> contentToRender]

FirstNonEmptyTitle(a, b, c) == IF a # << >> THEN a ELSE IF b # << >> THEN b ELSE c

\* A card that reuses the global header over one content section;
\* k is the 0-based position of the section in contentSections
HeaderTask(index, k, sections, contentSections, header, fallbackContent) ==
    LET has == k + 1 \in DOMAIN contentSections
        rawBody == IF has THEN sections[contentSections[k + 1]].content
                   ELSE fallbackContent
    IN  Task(index, IF has THEN contentSections[k + 1] ELSE 0,
             IF has THEN k + 1 ELSE NoSection,
             FirstNonEmptyTitle(
                 IF has THEN cleanSectionTitle(sections[contentSections[k + 1]].title)
                 ELSE << >>,
                 deriveTitleFromBody(rawBody), TemplateTitle(index)),
             buildContentWithHeader(header, rawBody))

CoverBody(sections, contentSections, fallbackContent) ==
    LET two == SubSeq(contentSections, 1, Min({2, Len(contentSections)}))
        summary == buildCoverSummaryBody([k \in DOMAIN two |-> sections[two[k]].content])
    IN  FirstNonEmptyTitle(summary, sections[contentSections[1]].content, fallbackContent)

CoverTask(sections, contentSections, header, fallbackContent) ==
    Task(0, 0, 0,
         IF cleanSectionTitle(header.title) # << >> THEN cleanSectionTitle(header.title)
         ELSE CoverTitle,
         buildContentWithHeader(header, CoverBody(sections, contentSections, fallbackContent)))

\* usableSections[index] || sections[index], as a position in sections (0: none)
PlainSection(index, sections, usable) ==
    IF index + 1 \in DOMAIN usable THEN usable[index + 1]
    ELSE IF index + 1 \in DOMAIN sections THEN index + 1
    ELSE 0

PlainContent(section, sections, fallbackContent) ==
    buildCleanContent(IF section # 0 /\ sections[section].content # << >>
                      THEN sections[section].content ELSE fallbackContent,
                      IF section # 0 THEN sections[section].title ELSE << >>)

PlainTitled(index, section, sections, contentToRender) ==
    After(contentToRender, Task(index,
         IF section # 0 /\ sections[section].content # << >> THEN section ELSE 0,
         IF section # 0 THEN section - 1 ELSE NoSection,
         FirstNonEmptyTitle(
             Trim(parseContent(Trim(contentToRender)).title),
             IF section # 0 THEN cleanSectionTitle(sections[section].title) ELSE << >>,
             TemplateTitle(index)),
         contentToRender))

PlainTask(index, sections, usable, fallbackContent) ==
    PlainTitled(index, PlainSection(index, sections, usable), sections,
                PlainContent(PlainSection(index, sections, usable), sections,
                             fallbackContent))

HeaderTasks(sections, contentSections, header, imageCount, fallbackContent) ==
    IF imageCount <= Len(contentSections)
    THEN [i \in 1..imageCount |->
             HeaderTask(i - 1, i - 1, sections, contentSections, header, fallbackContent)]
    ELSE <<CoverTask(sections, contentSections, header, fallbackContent)>>
         \o [i \in 1..(imageCount - 1) |->
                HeaderTask(i, i - 1, sections, contentSections, header, fallbackContent)]

TasksWith(sections, usable, header, imageCount, fallbackContent) ==
    IF header.found /\ Len(usable) > 1
    THEN HeaderTasks(sections, Tail(usable), header, imageCount, fallbackContent)
    ELSE [i \in 1..imageCount |-> PlainTask(i - 1, sections, usable, fallbackContent)]

\* The tasks generateWithVisualGenerator builds before it renders them
BatchTasks(sections, imageCount, fallbackContent) ==
    TasksWith(sections, UsableSections(sections),
              globalHeader(sections, UsableSections(sections)),
              imageCount, fallbackContent)

MaxSections == 3
MaxImages == 3

\* Sections as the content analysis leaves them in the step data: a title and
\* a content; plain text, text with a tag line, hashtags only, a header block
SectionPool ==
    {[title |-> <<"han">>, content |-> <<"han", "a", "han">>],
     [title |-> << >>, content |-> <<"han", "nl", "#", "a">>],
     [title |-> << >>, content |-> <<"#", "a", " ", "#", "b">>],
     [title |-> <<"han">>,
      content |-> <<"biao", "ti", ":", "a", "nl", "shi", "he", ":", "han">>]}

SectionLists == UNION {[1..n -> SectionPool] : n \in 0..MaxSections}

\* optimizedContent || content || prompt: the whole text the sections came from
WholeContent(sections) ==
    IF sections = << >> THEN <<"han", "han">>
    ELSE Trim(Join([k \in 1..(2 * Len(sections) - 1) |->
                       IF k % 2 = 1 THEN sections[(k + 1) \div 2].content ELSE << >>]))

InitBatch ==
    /\ InitEngine
    /\ scope = NoCalls
    /\ input \in [fn : {"generateWithVisualGenerator"}, sections : SectionLists,
                  imageCount : 1..MaxImages]
    /\ output = [fn |-> "none"]

\* generateWithVisualGenerator up to its first await: the tasks are built
BuildTasks ==
    /\ input.fn = "generateWithVisualGenerator"
    /\ output.fn = "none"
    /\ output' = [fn |-> "generateWithVisualGenerator",
                  tasks |-> BatchTasks(input.sections, input.imageCount,
                                       WholeContent(input.sections)),
                  results |-> << >>]
    /\ UNCHANGED <<isGenerating, surface, canvas, pc, req, res, inflightAtCall, scope, input>>

\* One turn of the render loop: the next task's card is added to the results
RenderTask ==
    /\ output.fn = "generateWithVisualGenerator"
    /\ Len(output.results) < Len(output.tasks)
    /\ LET task == output.tasks[Len(output.results) + 1]
       IN  output' = [output EXCEPT !.results =
                         Append(@, [content |-> task.contentToRender,
                                    sectionTitle |-> task.sectionTitle,
                                    sectionIndex |-> task.sectionOriginalIndex,
                                    variation |-> task.index + 1])]
    /\ UNCHANGED <<isGenerating, surface, canvas, pc, req, res, inflightAtCall, scope, input>>

BatchSpec == InitBatch /\ [][BuildTasks \/ RenderTask]_vars

----------------------------------------------------------------------------
(* CardSpec: drawContent on cards with and without a body and with up to     *)
(* MaxTagRows rows of tags                                                   *)

MaxTagRows == 6        \* wide custom tags, one per row
WideTagLength == 25    \* characters of a tag wider than half of every panel
FillLines == 24        \* body lines enough to fill the panel of every ratio

\* The k-th wide tag: distinct tags of WideTagLength characters
WideTag(k) == Repeat(<<"han">>, WideTagLength - 1) \o <<ToString(k)>>

CardTags == {[k \in 1..n |-> WideTag(k)] : n \in 0..MaxTagRows}

CardBodies ==
    {<< >>, <<"han", "a">>, Join(RepeatLines(<<Repeat(<<"han">>, 8)>>, FillLines))}

CardTagLines == {<< >>, <<"#", "a", " ", "#", "b">>}

CardContents ==
    {Join(NonEmptyLines(<<title, body, tagLine>>)) :
        title \in {<< >>, <<"biao", "ti", ":", "a">>}, body \in CardBodies,
        tagLine \in CardTagLines}

InitCard ==
    /\ InitEngine
    /\ scope = NoCalls
    /\ input \in [fn : {"drawContent"}, content : CardContents, customTags : CardTags,
                  imageStyle : StyleNames \ {"unknown"}, aspectRatio : AspectRatios]
    /\ output = [fn |-> "none"]

CardSpec == InitCard /\ [][DrawContent]_vars

\* C13: when the parsed body is empty, no content panel is drawn, the title
\* panel is drawn with its title, and the tags, if there are any, are drawn
\* outside a panel from the title panel's bottom edge (22 below it).
C13_EmptyBodySkipsPanel ==
    output.fn = "drawContent" /\ Trim(output.parsed.body) = << >> =>
        /\ ~output.panel.drawn
        /\ output.title.height > 0 /\ output.title.titleLines # << >>
        /\ output.mergedTags # << >> =>
              /\ output.tags.drawn /\ ~output.tags.inPanel
              /\ output.tags.y = output.title.y + output.title.height + 22

C13_Witness ==
    /\ output.fn = "drawContent"
    /\ input.content = <<"#", "a", " ", "#", "b">>
    /\ output.parsed.body = << >>
    /\ output.tags.drawn
    /\ Len(output.tags.rows) > 1

\* How far below line k - 1 of toDraw the drawing loop of drawMainContent
\* draws line k, in hundredths of a pixel
DrawnStep(toDraw, k, lineHeight) ==
    (IF toDraw[k].type = "heading" /\ toDraw[k - 1].type # "blank"
     THEN 100 * Round(lineHeight * 25, 100) ELSE 0)
    + 100 * heightWithContext(toDraw[k - 1], LineAt(toDraw, k - 2),
                              LineAt(toDraw, k), lineHeight)
    - (IF toDraw[k - 1].type = "heading"
          /\ LineAt(toDraw, k - 2).type \notin {"none", "blank"}
       THEN 100 * Round(lineHeight * 25, 100) ELSE 0)

\* The y, in hundredths of a pixel below the first line's slot, at which the
\* drawing loop of drawMainContent draws line k of toDraw
DrawnOffset(toDraw, k, lineHeight) ==
    FoldLeft(LAMBDA off, j : off + DrawnStep(toDraw, j, lineHeight), 0, Range(2, k))

\* The bottom of the glyphs of line k of the drawn body, in hundredths
DrawnBottom(panel, k) ==
    panel.textTop + DrawnOffset(panel.toDraw, k, panel.lineHeight)
    + 100 * (IF panel.toDraw[k].type = "heading" THEN Max({14, panel.fontSize - 1})
             ELSE panel.fontSize)

\* C14: when the tags are drawn inside the content panel, no drawn line of the
\* body reaches below the top of the block of tags, for every ratio, body
\* length and number of rows of tags.
C14_NoLineOverlapsTags ==
    output.fn = "drawContent" /\ output.panel.drawn /\ output.tags.drawn =>
        \A k \in DOMAIN output.panel.toDraw :
            output.panel.toDraw[k].type # "blank" =>
                DrawnBottom(output.panel, k) <= 100 * output.tags.y

----------------------------------------------------------------------------
(* ResolveSpec: the template configuration and the style profile a render    *)
(* resolves from the references it is given                                  *)

TemplateIds ==
    {"xiaohongshu-lifestyle", "xiaohongshu-knowledge", "xiaohongshu-fashion",
     "xiaohongshu-food", "xiaohongshu-travel", "xiaohongshu-product",
     "xiaohongshu-fitness", "xiaohongshu-minimalist", "xiaohongshu-tech-premium",
     "xiaohongshu-data-showcase", "xiaohongshu-tutorial-card"}

BaseTemplate == "xiaohongshu-lifestyle"

Categories ==
    {"lifestyle", "education", "fashion", "food", "travel", "shopping", "fitness",
     "minimalist", "technology"}

categoryFallback(category) ==
    CASE category = "lifestyle" -> "xiaohongshu-lifestyle"
      [] category = "education" -> "xiaohongshu-knowledge"
      [] category = "fashion" -> "xiaohongshu-fashion"
      [] category = "food" -> "xiaohongshu-food"
      [] category = "travel" -> "xiaohongshu-travel"
      [] category = "shopping" -> "xiaohongshu-product"
      [] category = "fitness" -> "xiaohongshu-fitness"
      [] category = "minimalist" -> "xiaohongshu-minimalist"
      [] category = "technology" -> "xiaohongshu-tech-premium"

\* Names every object literal answers to without owning them: the members of
\* Object.prototype.  table[name] is then a built-in function, which is truthy.
InheritedNames == {"constructor", "toString"}
Missing == "undefined"
Inherited == "Object.prototype member"

\* table[key] of an object literal whose own keys are own: the key when it is
\* an own key (standing for its value), Inherited, or Missing
Member(own, key) ==
    IF key \in own THEN key ELSE IF key \in InheritedNames THEN Inherited ELSE Missing

\* cardTemplates[categoryFallback[category] || 'xiaohongshu-lifestyle']: an
\* inherited member of categoryFallback is a function, no key of cardTemplates
CategoryTemplate(category) ==
    IF Member(Categories, category) \in Categories
    THEN Member(TemplateIds, categoryFallback(category))
    ELSE IF Member(Categories, category) = Inherited THEN Missing
    ELSE Member(TemplateIds, BaseTemplate)

getTemplateConfig(template) ==
    IF template.id # Missing /\ Member(TemplateIds, template.id) # Missing
    THEN Member(TemplateIds, template.id)
    ELSE IF CategoryTemplate(template.category) # Missing
    THEN CategoryTemplate(template.category)
    ELSE Member(TemplateIds, BaseTemplate)

ProfileKeys == {"realistic", "illustration", "minimalist", "artistic"}

\* profiles[imageStyle] || profiles.illustration, imageStyle = 'illustration'
\* when it is not given
getStyleProfile(imageStyle) ==
    IF imageStyle = Missing THEN "illustration"
    ELSE IF Member(ProfileKeys, imageStyle) # Missing THEN Member(ProfileKeys, imageStyle)
    ELSE "illustration"

\* drawBackground reads background.startsWith unless the profile's
\* backgroundMode is 'minimal': a TypeError when the configuration has no
\* background
BackgroundThrows(templateConfig, styleProfile) ==
    templateConfig \notin TemplateIds /\ styleProfile # "minimalist"

TemplateRefs == TemplateIds \cup {"no-such-template", Missing} \cup InheritedNames
CategoryRefs == Categories \cup {"no-such-category", Missing} \cup InheritedNames
StyleRefs == ProfileKeys \cup {"no-such-style", Missing} \cup InheritedNames

InitResolve ==
    /\ InitEngine
    /\ scope = NoCalls
    /\ input \in [fn : {"resolve"}, template : [id : TemplateRefs, category : CategoryRefs],
                  imageStyle : StyleRefs]
    /\ output = [fn |-> "none"]

\* generateCard from the resolution of its references to the background
Resolve ==
    /\ input.fn = "resolve"
    /\ output.fn = "none"
    /\ output' = [fn |-> "resolve",
                  templateConfig |-> getTemplateConfig(input.template),
                  styleProfile |-> getStyleProfile(input.imageStyle),
                  threw |-> BackgroundThrows(getTemplateConfig(input.template),
                                             getStyleProfile(input.imageStyle))]
    /\ UNCHANGED <<isGenerating, surface, canvas, pc, req, res, inflightAtCall, scope, input>>

ResolveSpec == InitResolve /\ [][Resolve]_vars

\* C15: whatever template id, category and style name a render is given, it
\* obtains a template configuration of the table (the one of the id, else the
\* category's default, else the base template) and a style profile of the
\* table (the one named, else illustration), and does not fail.
C15_ResolutionNeverFails ==
    output.fn = "resolve" =>
        /\ output.templateConfig =
              (IF input.template.id \in TemplateIds THEN input.template.id
               ELSE IF input.template.category \in Categories
               THEN categoryFallback(input.template.category)
               ELSE BaseTemplate)
        /\ output.styleProfile =
              (IF input.imageStyle \in ProfileKeys THEN input.imageStyle
               ELSE "illustration")
        /\ ~output.threw

----------------------------------------------------------------------------
(* SizeSpec: renders one after the other, of every aspect ratio and quality  *)

InitSize ==
    /\ InitEngine
    /\ scope = [calls |-> 1..NRenders, styles |-> {"minimalist"}, serial |-> TRUE,
                ratios |-> AspectRatios, qualities |-> Qualities]
    /\ input = [fn |-> "none"]
    /\ output = [fn |-> "none"]

SizeSpec == InitSize /\ [][Next]_vars

\* The pixel sizes the specification fixes for a quality and an aspect ratio
TableShort(quality) ==
    CASE quality = "standard" -> 540 [] quality = "high" -> 1080 [] quality = "ultra" -> 1440

TableSize(aspectRatio, quality) ==
    CASE aspectRatio = "9:16" ->
           [width |-> TableShort(quality), height |-> (TableShort(quality) * 16) \div 9]
      [] aspectRatio = "16:9" ->
           [width |-> (TableShort(quality) * 16) \div 9, height |-> TableShort(quality)]
      [] aspectRatio = "1:1" ->
           [width |-> TableShort(quality), height |-> TableShort(quality)]
      [] aspectRatio = "4:5" ->
           IF quality = "standard" THEN [width |-> 720, height |-> 900]
           ELSE [width |-> TableShort(quality), height |-> (TableShort(quality) * 5) \div 4]

\* C16: the artifact of a render reports the table's size for the render's
\* own aspect ratio and quality (1080 by 1920 for 9:16 at high), and that is
\* the pixel size of the bitmap that was encoded, also when an earlier render
\* on the same engine had another aspect ratio or quality.
C16_ArtifactHasTableSize ==
    \A c \in Calls :
        Resolved(c) =>
            /\ res[c].width = TableSize(req[c].aspectRatio, req[c].quality).width
            /\ res[c].height = TableSize(req[c].aspectRatio, req[c].quality).height
            /\ res[c].bitmap = TableSize(req[c].aspectRatio, req[c].quality)
            /\ (req[c].aspectRatio = "9:16" /\ req[c].quality = "high") =>
                  (res[c].width = 1080 /\ res[c].height = 1920)

C16_Witness ==
    \E c, d \in Calls :
        /\ c < d /\ Resolved(c) /\ Resolved(d)
        /\ req[c].engine = req[d].engine
        /\ req[c].aspectRatio = "16:9" /\ req[c].quality = "ultra"
        /\ req[d].aspectRatio = "9:16" /\ req[d].quality = "high"
        /\ res[d].width = 1080 /\ res[d].height = 1920

----------------------------------------------------------------------------
(* The order of the drawing steps of one render *)

StepOrder ==
    <<"fill", "overlay", "noise", "title", "content", "topbar", "corners",
      "category", "watermark">>

StepRank(step) == CHOOSE k \in DOMAIN StepOrder : StepOrder[k] = step

InOrder(log) ==
    \A i, j \in DOMAIN log : i < j => StepRank(log[i].step) < StepRank(log[j].step)

Steps(log) == {log[i].step : i \in DOMAIN log}

\* C17: the steps of a render are drawn in the order fill, overlay, noise,
\* content (title, then body), top bar, corner ornaments, category ornament,
\* watermark, and the bitmap handed to the encoder holds all the steps of the
\* render: the fill, the content and the top bar always, the watermark when it
\* was asked for.
C17_DrawOrder ==
    /\ \A e \in Engines : InOrder(surface[e])
    /\ \A c \in Calls :
          pc[c] \in {"blobwait", "lost"} \/ Resolved(c) =>
              LET log == IF Resolved(c) THEN res[c].blob ELSE res[c].snapshot
              IN  /\ InOrder(log)
                  /\ {"fill", "title", "content", "topbar"} \subseteq Steps(log)
                  /\ ("watermark" \in Steps(log)) = req[c].addWatermark
                  /\ log[1].step = "fill"
                  /\ \A i \in DOMAIN log : log[i].by = c

C17_Witness ==
    \E c \in Calls :
        /\ Resolved(c)
        /\ Steps(res[c].blob) = {StepOrder[k] : k \in DOMAIN StepOrder}
        /\ res[c].blob[Len(res[c].blob)].step = "watermark"

----------------------------------------------------------------------------
(* The generated title *)

\* The content has no title line, and its first non-empty line is a list item
\* or longer than FirstLineMax
DefersToGeneratedTitle(content) ==
    LET lines == TrimEndEach(Split(extractHashtags(Trim(content)).text, {"nl"}))
        first == FirstNonEmpty(lines)
    IN  /\ first # 0
        /\ \A k \in DOMAIN lines : TitleLineMatch(stripLeadingMarkers(lines[k])) = << >>
        /\ \/ parseListItem(Trim(lines[first])).ok
           \/ JsLength(Trim(lines[first])) > FirstLineMax

\* The first clause of a text: up to its first sentence end, blanks collapsed
FirstClause(text) ==
    LET safe == Trim(ReplaceRuns(text, Spaces, 1, <<" ">>))
    IN  IF safe = << >> THEN << >> ELSE Trim(Split(safe, {"stop"})[1])

\* C18: when the title is generated and the first clause of the body is longer
\* than 20 characters, the title is cut to 20 characters and ends with an
\* ellipsis.
C18_GeneratedTitleHasEllipsis ==
    (/\ output.fn = "parseContent"
     /\ DefersToGeneratedTitle(input.content)
     /\ JsLength(FirstClause(output.parsed.body)) > GeneratedTitleMax)
    => /\ EndsWith(output.parsed.title, Ellipsis)
       /\ JsLength(output.parsed.title) <= GeneratedTitleMax + Len(Ellipsis)

----------------------------------------------------------------------------
(* ListSpec: parseListItem on lines put together from a glyph, a numeric     *)
(* enumeration and a content                                                 *)

MaxItemLength == 5     \* characters of the content of a list line

ItemGlyphs == {<< >>, <<"emoji">>, <<"-">>}
ItemNumbers ==
    {<< >>, <<"1", ")">>, <<"1", "2", ".">>, <<"yi", "dun">>, <<"1">>, <<"1", "2", "1", ")">>}
ItemGaps == {<< >>, <<" ">>}
ItemContents ==
    {<< >>, <<"a">>, <<"1", ")", "a">>} \cup {Repeat(<<"han">>, n) : n \in 1..MaxItemLength}

InitList ==
    /\ InitEngine
    /\ scope = NoCalls
    /\ input \in [fn : {"parseListItem"}, lead : ItemGaps, glyph : ItemGlyphs,
                  number : ItemNumbers, gap : ItemGaps, content : ItemContents]
    /\ output = [fn |-> "none"]

\* layoutTextLines on one raw line, up to the list item it finds in it
ParseListItem ==
    /\ input.fn = "parseListItem"
    /\ output.fn = "none"
    /\ output' = [fn |-> "parseListItem",
                  item |-> parseListItem(Trim(input.lead \o input.glyph \o input.number
                                              \o input.gap \o input.content))]
    /\ UNCHANGED <<isGenerating, surface, canvas, pc, req, res, inflightAtCall, scope, input>>

ListSpec == InitList /\ [][ParseListItem]_vars

\* C20: a line made of a decorative glyph, a numeric enumeration (one or two
\* digits or numerals, and a closer) and a content is split into the numeric
\* enumeration as its marker and the content: the glyph is dropped.
C20_NumericMarkerPreferred ==
    (/\ output.fn = "parseListItem"
     /\ input.glyph \in {<<g>> : g \in ListGlyphs}
     /\ EnumPrefixLength(input.number, EnumClosers) = Len(input.number)
     /\ input.number # << >>
     /\ input.content # << >>)
    => output.item = [ok |-> TRUE, marker |-> input.number, content |-> input.content]

\* "🔸1）先做这一步" gives the marker "1）" and the content "先做这一步"
C20_Witness ==
    /\ output.fn = "parseListItem"
    /\ input.lead = << >> /\ input.glyph = <<"emoji">> /\ input.number = <<"1", ")">>
    /\ input.gap = << >> /\ input.content = Repeat(<<"han">>, 5)
    /\ output.item = [ok |-> TRUE, marker |-> <<"1", ")">>,
                      content |-> <<"han", "han", "han", "han", "han">>]

----------------------------------------------------------------------------
(* OptimizeSpec: ContentOptimizer.optimizeContent with the Gemini text       *)
(* models answering, failing or not being asked at all                       *)

MaxOptimizations == 2     \* calls of optimizeContent in one behaviour

textModels == <<"gemini-2.5-flash", "gemini-2.0-flash", "gemini-1.5-flash-latest">>

ToneKeys == {"friendly", "professional", "playful", "concise", "elegant", "trendy"}

\* tonePrefixMap[tone] || tonePrefixMap.friendly, each sentence cut to its shape
tonePrefix(tone) ==
    CASE tone = "professional" -> <<"han", "han", ":">>
      [] tone = "playful" -> <<"han", "han", "emoji">>
      [] tone = "concise" -> <<"han", ":">>
      [] tone = "elegant" -> <<"han", "han", "han", ":">>
      [] tone = "trendy" -> <<"han", "han", "han", "han", ":">>
      [] OTHER -> <<"han", "emoji">>

\* toneSuffixMap[tone] || toneSuffixMap.friendly
toneSuffix(tone) ==
    CASE tone = "professional" -> <<"han", "han", "stop">>
      [] tone = "playful" -> <<"han", "han", "a">>
      [] tone = "concise" -> <<"han", "stop">>
      [] tone = "elegant" -> <<"han", "han", "han", "stop">>
      [] tone = "trendy" -> <<"han", "han", "han", "han", "stop">>
      [] OTHER -> <<"han", "a">>

Placeholder == <<"han", "han", "han", "stop">>

\* text.split(/(?<=[。！？])/): the sentences of a text, each with its end
RECURSIVE SplitAfter(_, _)
SplitAfter(str, class) ==
    LET cut == {k \in DOMAIN str : str[k] \in class}
    IN  IF cut = {} THEN (IF str = << >> THEN << >> ELSE <<str>>)
        ELSE <<SubSeq(str, 1, Min(cut))>> \o SplitAfter(Drop(str, Min(cut)), class)

\* segments.join('\n\n')
RECURSIVE JoinParagraphs(_)
JoinParagraphs(parts) ==
    IF parts = << >> THEN << >>
    ELSE IF Len(parts) = 1 THEN parts[1]
    ELSE parts[1] \o <<"nl", "nl">> \o JoinParagraphs(Tail(parts))

\* sentences.slice(i, i + 2).join('') for i = 0, 2, 4, ...
RECURSIVE GroupPairs(_)
GroupPairs(sentences) ==
    IF Len(sentences) <= 2 THEN <<Concat(sentences)>>
    ELSE <<sentences[1] \o sentences[2]>> \o GroupPairs(Drop(sentences, 2))

restructureFallbackText(text) ==
    LET segments == TrimmedLines(text)
        parts == SplitAfter(text, {"stop"})
        sentences == NonEmptyLines([k \in DOMAIN parts |-> Trim(parts[k])])
    IN  IF Len(segments) >= 2 THEN JoinParagraphs(segments)
        ELSE IF Len(sentences) <= 2 THEN text
        ELSE JoinParagraphs(GroupPairs(sentences))

\* optimized.replace(/(^|\n)([^#\n].{6,30})(?=\n|$)/g, '$1🔸$2')
MarkLine(line) ==
    IF line # << >> /\ line[1] # "#" /\ JsLength(line) >= 7 /\ JsLength(line) <= 31
    THEN <<"emoji">> \o line ELSE line

MarkLines(text) ==
    LET lines == Split(text, {"nl"})
    IN  Join([k \in DOMAIN lines |-> MarkLine(lines[k])])

\* String(tag || '').trim().replace(/^#/, '')
FallbackTag(tag) ==
    LET t == Trim(tag) IN IF t # << >> /\ t[1] = "#" THEN Tail(t) ELSE t

RECURSIVE JoinWords(_)
JoinWords(words) ==
    IF words = << >> THEN << >>
    ELSE IF Len(words) = 1 THEN words[1]
    ELSE words[1] \o <<" ">> \o JoinWords(Tail(words))

FallbackTags(customTags) ==
    LET kept == NonEmptyLines([k \in DOMAIN customTags |-> FallbackTag(customTags[k])])
        six == SubSeq(kept, 1, Min({6, Len(kept)}))
    IN  [k \in DOMAIN six |-> <<"#">> \o six[k]]

FallbackBody(safeOriginal, tone, options) ==
    LET cleaned == Trim(ReplaceRuns(ReplaceRuns(safeOriginal, {" "}, 1, <<" ">>),
                                    {"nl"}, 3, <<"nl", "nl">>))
        shaped == IF options.optimizeStructure # FALSE
                  THEN restructureFallbackText(cleaned) ELSE cleaned
    IN  IF options.addEmojis # FALSE /\ tone # "professional" /\ tone # "concise"
        THEN MarkLines(shaped) ELSE shaped

generateFallbackOptimization(originalContent, tone, customTags, options) ==
    LET safeOriginal == Trim(originalContent)
        tags == FallbackTags(customTags)
        finalLines == <<tonePrefix(tone), << >>, FallbackBody(safeOriginal, tone, options),
                        << >>, toneSuffix(tone)>>
                      \o (IF Len(tags) > 0 THEN << << >>, JoinWords(tags) >> ELSE << >>)
    IN  IF safeOriginal = << >> THEN Placeholder
        ELSE Trim(ReplaceRuns(Join(finalLines), {"nl"}, 3, <<"nl", "nl">>))

\* Three backticks
Fence == <<"tick", "tick", "tick">>

\* normalizeOptimizedText: a fence at the start and one at the end are cut, and
\* the rest is trimmed
normalizeOptimizedText(text) ==
    LET opened == IF Len(text) >= 3 /\ SubSeq(text, 1, 3) = Fence THEN Drop(text, 3) ELSE text
    IN  Trim(IF EndsWith(opened, Fence) THEN DropLast(opened, 3) ELSE opened)

\* What one text model gives back: a text, nothing usable, or an error
Answers == {<<"han", "han">>, Fence \o <<"nl", "han">> \o Fence, Fence, << >>, <<"error">>}

\* context.options?.allowLocalFallback !== false, otherwise
AllowLocalFallbackOnRequest(options) == options.allowLocalFallback = "true"

\* context.options?.allowLocalFallback !== false
AllowLocalFallback(options) == options.allowLocalFallback # "false"

\* validateStep3: String(optimizedContent || '').trim().length > 0
validateStep3(stepData) == Trim(stepData) # << >>

Idle ==
    [fn |-> "optimizeContent", at |-> "idle", isOptimizing |-> FALSE, model |-> 0,
     failed |-> 0, outcome |-> "none", returned |-> << >>, source |-> "none",
     note |-> FALSE, optimizedContent |-> << >>, history |-> 0, calls |-> 0,
     refused |-> 0]

\* The texts of step 1: blanks only, one line, three sentences, lines far apart
Originals ==
    {<<" ">>, Repeat(<<"han">>, 8),
     <<"han", "han", "stop", "han", "han", "stop", "han", "han", "stop">>,
     Repeat(<<"han">>, 8) \o <<"nl", "nl", "nl">> \o <<"#", "a">>}

OptimizeTags == {<< >>, <<<<"A">>>>, <<<<"#", "A">>, <<" ">>, <<"B">>>>}

\* The options as the wizard passes them: three check boxes, no allowLocalFallback
OptimizeOptions ==
    [addEmojis : BOOLEAN, optimizeStructure : BOOLEAN, allowLocalFallback : {"undefined"}]

InitOptimize ==
    /\ InitEngine
    /\ scope = NoCalls
    /\ input \in [fn : {"optimizeContent"}, apiKey : BOOLEAN,
                  tone : {"friendly", "professional", "playful"},
                  originalContent : Originals, customTags : OptimizeTags,
                  options : OptimizeOptions]
    /\ output = Idle

\* optimizeContent from its catch on: the error is shown and thrown again
OptimizeFailed(o) ==
    [o EXCEPT !.at = "idle", !.isOptimizing = FALSE, !.outcome = "rejected",
              !.returned = << >>, !.source = "none", !.calls = @ + 1]

\* optimizeContent after callOptimizationAPI has answered: the history entry,
\* displayOptimizationResult with setStepData, the return and the finally block
Optimized(o, result) ==
    [o EXCEPT !.at = "idle", !.isOptimizing = FALSE, !.outcome = "resolved",
              !.returned = result.content, !.source = result.source,
              !.note = (result.source = "local"),
              !.optimizedContent = result.content,
              !.history = @ + 1, !.calls = @ + 1]

\* callOptimizationAPI when no model can be used: the local fallback or an error
Unavailable(o) ==
    IF AllowLocalFallback(input.options) THEN [o EXCEPT !.at = "timer"] ELSE OptimizeFailed(o)

\* optimizeContent up to the first await inside callOptimizationAPI
OptimizeContent ==
    /\ input.fn = "optimizeContent"
    /\ output.at = "idle"
    /\ output.calls < MaxOptimizations
    /\ LET started == [output EXCEPT !.isOptimizing = TRUE, !.failed = 0, !.model = 0]
       IN  output' = IF ~input.apiKey THEN Unavailable(started)
                     ELSE [started EXCEPT !.at = "request", !.model = 1]
    /\ UNCHANGED <<isGenerating, surface, canvas, pc, req, res, inflightAtCall, scope, input>>

\* A second optimizeContent while the first is awaited: thrown before the try
OptimizeWhileBusy ==
    /\ input.fn = "optimizeContent"
    /\ output.isOptimizing
    /\ output.refused < MaxOptimizations
    /\ output' = [output EXCEPT !.refused = @ + 1]
    /\ UNCHANGED <<isGenerating, surface, canvas, pc, req, res, inflightAtCall, scope, input>>

\* makeGeminiRequest of the model being tried comes back
ModelAnswers ==
    /\ input.fn = "optimizeContent"
    /\ output.at = "request"
    /\ \E answer \in Answers :
          output' =
            IF answer \notin {<<"error">>, << >>}
            THEN Optimized(output, [content |-> normalizeOptimizedText(answer),
                                   source |-> "gemini"])
            ELSE IF output.model < Len(textModels)
            THEN [output EXCEPT !.model = @ + 1, !.failed = @ + 1]
            ELSE Unavailable([output EXCEPT !.failed = @ + 1])
    /\ UNCHANGED <<isGenerating, surface, canvas, pc, req, res, inflightAtCall, scope, input>>

\* runLocalFallbackOptimization after its timer of 250 ms
LocalFallback ==
    /\ input.fn = "optimizeContent"
    /\ output.at = "timer"
    /\ output' = Optimized(output,
                    [content |-> generateFallbackOptimization(input.originalContent,
                                    input.tone, input.customTags, input.options),
                     source |-> "local"])
    /\ UNCHANGED <<isGenerating, surface, canvas, pc, req, res, inflightAtCall, scope, input>>

OptimizeSpec ==
    InitOptimize /\ [][OptimizeContent \/ OptimizeWhileBusy \/ ModelAnswers \/ LocalFallback]_vars

\* The call that ended last found no usable model: no key, or three failures
GeminiUnavailable ==
    /\ output.fn = "optimizeContent"
    /\ output.at = "idle"
    /\ output.calls > 0
    /\ (~input.apiKey \/ output.failed = Len(textModels))

\* C19: when no API key is configured or every text model request failed, the
\* call of optimizeContent ends resolved, not rejected, with a non-blank text
\* marked as source 'local'; that text is the step's optimized content, step 3
\* is valid, and the optimizer is free again.
C19_LocalFallbackKeepsWorkflow ==
    GeminiUnavailable
    => /\ output.outcome = "resolved"
       /\ output.source = "local"
       /\ output.note
       /\ Trim(output.returned) # << >>
       /\ output.optimizedContent = output.returned
       /\ validateStep3(output.optimizedContent)
       /\ ~output.isOptimizing

\* A key is configured, all three models fail, and the local text is stored
C19_Witness ==
    /\ GeminiUnavailable
    /\ input.apiKey
    /\ output.failed = 3
    /\ output.outcome = "resolved"
    /\ output.source = "local"
    /\ input.originalContent = Repeat(<<"han">>, 8)
    /\ input.tone = "friendly" /\ input.customTags = <<<<"A">>>>
    /\ input.options.addEmojis /\ input.options.optimizeStructure
    /\ output.optimizedContent =
         <<"han", "emoji", "nl", "nl", "emoji">> \o Repeat(<<"han">>, 8)
         \o <<"nl", "nl", "han", "a", "nl", "nl", "#", "A">>

----------------------------------------------------------------------------
(* ScenarioSpec: generateCard on the card of the end-to-end scenario and on  *)
(* cards made of some of its lines, from the text to the artifact            *)

MaxSteps == 3    \* numbered lines of a card

ScenarioTitle == <<"san", "bu", "da", "hao", "kai", "fa", "huan", "jing4">>
ScenarioAudience == <<"ling", "ji", "chu", "xin", "shou">>

\* '标题：三步搭好开发环境' and '适合：零基础新手'
ScenarioTitleLine == <<"biao", "ti", ":">> \o ScenarioTitle
ScenarioAudienceLine == <<"shi", "he", ":">> \o ScenarioAudience

\* '1. 安装工具', '2. 配置环境变量', '3. 验证安装', and a line for every further k
ScenarioStep(k) ==
    CASE k = 1 -> <<"1", ".", " ", "an", "zhuang", "gong", "ju">>
      [] k = 2 -> <<"2", ".", " ", "pei", "zhi", "huan", "jing4", "bian", "liang">>
      [] k = 3 -> <<"3", ".", " ", "yan", "zheng", "an", "zhuang">>
      [] OTHER -> <<"1", "2", ".", " ", "han", "han">>

ScenarioLines(withTitle, withAudience, steps, tagLine) ==
    (IF withTitle THEN <<ScenarioTitleLine>> ELSE << >>)
    \o (IF withAudience THEN <<ScenarioAudienceLine>> ELSE << >>)
    \o [k \in 1..steps |-> ScenarioStep(k)]
    \o (IF tagLine # << >> THEN <<tagLine>> ELSE << >>)

ScenarioContent == Join(ScenarioLines(TRUE, TRUE, 3, << >>))

ScenarioContents ==
    {Join(ScenarioLines(withTitle, withAudience, steps, tagLine)) :
        withTitle \in BOOLEAN, withAudience \in BOOLEAN, steps \in 0..MaxSteps,
        tagLine \in {<< >>, <<"#", "a">>}}

ScenarioTemplate == [id |-> "xiaohongshu-knowledge", category |-> "education"]

\* options.format || 'png', the format not given being "undefined"
FormatJpg(format) == "jpg"

FormatOrPng(format) == IF format = Missing THEN "png" ELSE format

InitScenario ==
    /\ InitEngine
    /\ scope = NoCalls
    /\ input \in [fn : {"generateCard"}, content : ScenarioContents,
                  template : {ScenarioTemplate}, customTags : {<< >>},
                  imageStyle : StyleNames \ {"unknown"}, aspectRatio : AspectRatios,
                  quality : Qualities, format : {Missing, "jpg"}]
    /\ output = [fn |-> "none"]

\* prepareCanvas, getTemplateConfig, getStyleProfile
PrepareCard ==
    /\ input.fn = "generateCard"
    /\ output.fn = "none"
    /\ output' = [fn |-> "prepared",
                  canvas |-> prepareCanvas(NewCanvas, input.aspectRatio, input.quality),
                  templateConfig |-> getTemplateConfig(input.template),
                  styleProfile |-> getStyleProfile(input.imageStyle)]
    /\ UNCHANGED <<isGenerating, surface, canvas, pc, req, res, inflightAtCall, scope, input>>

\* drawContent: the parsed text, the title panel, the content panel, the tags
DrawCard ==
    /\ output.fn = "prepared"
    /\ output' = [fn |-> "drawn", canvas |-> output.canvas,
                  templateConfig |-> output.templateConfig,
                  styleProfile |-> output.styleProfile,
                  card |-> drawContent(input.content, input.customTags,
                                       output.styleProfile, input.aspectRatio)]
    /\ UNCHANGED <<isGenerating, surface, canvas, pc, req, res, inflightAtCall, scope, input>>

\* drawDecorations
DecorateCard ==
    /\ output.fn = "drawn"
    /\ output' = [fn |-> "decorated", canvas |-> output.canvas,
                  templateConfig |-> output.templateConfig,
                  styleProfile |-> output.styleProfile, card |-> output.card,
                  decorations |-> Pixels(drawDecorations(1, output.styleProfile))]
    /\ UNCHANGED <<isGenerating, surface, canvas, pc, req, res, inflightAtCall, scope, input>>

\* canvasToImageData(options.format || 'png', options), with a blob delivered
EncodeCard ==
    /\ output.fn = "decorated"
    /\ output' = [fn |-> "encoded", canvas |-> output.canvas,
                  templateConfig |-> output.templateConfig,
                  styleProfile |-> output.styleProfile, card |-> output.card,
                  decorations |-> output.decorations,
                  artifact |-> [bitmap |-> [width |-> output.canvas.width,
                                            height |-> output.canvas.height],
                                width |-> output.canvas.renderInfo.output.width,
                                height |-> output.canvas.renderInfo.output.height,
                                format |-> FormatOrPng(input.format)]]
    /\ UNCHANGED <<isGenerating, surface, canvas, pc, req, res, inflightAtCall, scope, input>>

ScenarioSpec ==
    InitScenario /\ [][PrepareCard \/ DrawCard \/ DecorateCard \/ EncodeCard]_vars

\* The scenario's arguments: its content and template, 9:16, high, minimalist,
\* no format
IsScenario ==
    /\ input.fn = "generateCard"
    /\ input.content = ScenarioContent
    /\ input.template = ScenarioTemplate
    /\ input.aspectRatio = "9:16" /\ input.quality = "high"
    /\ input.imageStyle = "minimalist" /\ input.format = Missing

Contains(str, part) ==
    \E k \in 0..(Len(str) - Len(part)) : SubSeq(str, k + 1, k + Len(part)) = part

\* C21: for the end-to-end scenario the pipeline parse, layout, draw, encode
\* yields the title of the title line, a kicker containing the audience, exactly
\* three numbered rows in the content panel and all of them drawn, no tag
\* block, no decoration beyond the top bar, and a 1080 x 1920 PNG artifact.
C21_EndToEndScenario ==
    (IsScenario /\ output.fn = "encoded") =>
        /\ output.card.parsed.title = ScenarioTitle
        /\ Contains(output.card.parsed.kicker, ScenarioAudience)
        /\ output.card.title.titleLines = <<ScenarioTitle>>
        /\ output.card.panel.drawn
        /\ Len(output.card.panel.toDraw) = 3
        /\ ~output.card.panel.overflow
        /\ \A k \in 1..3 :
              /\ output.card.panel.toDraw[k].type = "text"
              /\ output.card.panel.toDraw[k].marker = SubSeq(ScenarioStep(k), 1, 2)
              /\ output.card.panel.toDraw[k].text = Drop(ScenarioStep(k), 3)
        /\ ~output.card.tags.drawn
        /\ output.card.mergedTags = << >>
        /\ output.decorations = <<<<"topbar", "minimalist">>>>
        /\ output.artifact = [bitmap |-> [width |-> 1080, height |-> 1920],
                              width |-> 1080, height |-> 1920, format |-> "png"]

C21_Witness ==
    /\ IsScenario
    /\ output.fn = "encoded"
    /\ output.card.parsed.title = ScenarioTitle
    /\ Len(output.card.panel.toDraw) = 3
    /\ output.artifact.height = 1920

(***************************************************************************)
(* PreviewSpec: step 4 of the wizard. The live preview and the batch       *)
(* generation are two async functions; each step below is what runs        *)
(* between two of their awaits. output.at is where each of them waits.     *)
(***************************************************************************)
Generations == {"live", "batch"}

\* this generation is between its start and its end
Running(o, g) == o.at[g] \in {"gemini", "render"}

\* the images a generation hands over: one per task, task per imageCount
ImagesOf(o, g) == [k \in 1..o.count[g] |-> <<g, k>>]

\* app.generatedImages without the state of the URLs
Listed(o) == [k \in 1..Len(o.generatedImages) |-> o.generatedImages[k].id]

InitPreview ==
    /\ InitEngine
    /\ scope = NoCalls
    /\ input \in [fn : {"preview"}, apiKey : BOOLEAN]
    /\ output = [fn |-> "preview",
                 at |-> [g \in Generations |-> "idle"],
                 count |-> [g \in Generations |-> 1],
                 cards |-> [g \in Generations |-> 0],
                 generatedImages |-> << >>,
                 previewImagesGrid |-> << >>,
                 generatePreviewBtn |-> "enabled",
                 generateAllBtn |-> "enabled",
                 visualBusy |-> FALSE,
                 imageBusy |-> FALSE,
                 overlapped |-> FALSE]

\* The way out of a generation through its catch: generateLivePreview shows
\* the error; generateImages rethrows, its finally frees the image generator,
\* and the finally of generateAllImages restores its button
Rejected(o, g) ==
    IF g = "live" THEN [o EXCEPT !.at[g] = "failed"]
    ELSE [o EXCEPT !.at[g] = "failed", !.imageBusy = FALSE, !.generateAllBtn = "enabled"]

\* generateWithVisualGenerator up to its first generateCard, which throws at
\* once when the visual generator is rendering for someone else
StartLocal(o, g) ==
    IF o.visualBusy THEN Rejected(o, g)
    ELSE [o EXCEPT !.at[g] = "render", !.cards[g] = 0, !.visualBusy = TRUE]

\* processGenerationResults adds every image to the application's list; then
\* the generation fills the preview grid and restores its button
processGenerationResults(o, g) ==
    [o EXCEPT !.at[g] = "done",
              !.generatedImages =
                  @ \o [k \in 1..o.count[g] |-> [id |-> <<g, k>>, usable |-> TRUE]],
              !.previewImagesGrid = ImagesOf(o, g),
              !.generatePreviewBtn = IF g = "live" THEN "enabled" ELSE @,
              !.generateAllBtn = IF g = "batch" THEN "enabled" ELSE @,
              !.imageBusy = IF g = "batch" THEN FALSE ELSE @]

\* A generation from its click to its first await: the button, the settings,
\* the cleared list
Started(o, g, imageCount) ==
    [o EXCEPT !.count[g] = imageCount, !.cards[g] = 0,
              !.generatedImages = << >>,
              !.overlapped = \E h \in Generations \ {g} : Running(o, h)]

\* generateLivePreview, from the button, the refresh button or the retry link
generateLivePreview ==
    /\ input.fn = "preview"
    /\ ~Running(output, "live")
    /\ \E imageCount \in 1..MaxImages :
          output' = StartLocal([Started(output, "live", imageCount)
                                   EXCEPT !.generatePreviewBtn = "disabled"], "live")
    /\ UNCHANGED <<isGenerating, surface, canvas, pc, req, res, inflightAtCall, scope, input>>

\* generateAllImages with generateImages up to the first await of
\* callImageGenerationAPI: Gemini with a key, the visual generator without
generateAllImages ==
    /\ input.fn = "preview"
    /\ output.generateAllBtn = "enabled"
    /\ ~output.imageBusy
    /\ \E imageCount \in 1..MaxImages :
          LET started == [Started(output, "batch", imageCount)
                             EXCEPT !.generateAllBtn = "disabled", !.imageBusy = TRUE]
          IN  output' = IF input.apiKey THEN [started EXCEPT !.at["batch"] = "gemini"]
                        ELSE StartLocal(started, "batch")
    /\ UNCHANGED <<isGenerating, surface, canvas, pc, req, res, inflightAtCall, scope, input>>

\* generateCard resolves: the loop goes on to the next task at once, or the
\* results are processed and shown
CardRendered(g) ==
    /\ input.fn = "preview"
    /\ output.at[g] = "render"
    /\ output' = IF output.cards[g] + 1 < output.count[g]
                 THEN [output EXCEPT !.cards[g] = @ + 1]
                 ELSE processGenerationResults(
                          [output EXCEPT !.cards[g] = @ + 1, !.visualBusy = FALSE], g)
    /\ UNCHANGED <<isGenerating, surface, canvas, pc, req, res, inflightAtCall, scope, input>>

\* generateCard rejects: its finally frees the visual generator
CardFails(g) ==
    /\ input.fn = "preview"
    /\ output.at[g] = "render"
    /\ output' = Rejected([output EXCEPT !.visualBusy = FALSE], g)
    /\ UNCHANGED <<isGenerating, surface, canvas, pc, req, res, inflightAtCall, scope, input>>

\* requestGeminiImage answers with an image for the next task
GeminiImage ==
    /\ input.fn = "preview"
    /\ output.at["batch"] = "gemini"
    /\ output' = IF output.cards["batch"] + 1 < output.count["batch"]
                 THEN [output EXCEPT !.cards["batch"] = @ + 1]
                 ELSE processGenerationResults(
                          [output EXCEPT !.cards["batch"] = @ + 1], "batch")
    /\ UNCHANGED <<isGenerating, surface, canvas, pc, req, res, inflightAtCall, scope, input>>

\* requestGeminiImage fails: callImageGenerationAPI falls back to the visual
\* generator
GeminiFails ==
    /\ input.fn = "preview"
    /\ output.at["batch"] = "gemini"
    /\ output' = StartLocal(output, "batch")
    /\ UNCHANGED <<isGenerating, surface, canvas, pc, req, res, inflightAtCall, scope, input>>

\* The page becomes hidden: performMemoryCleanup revokes the object URL of
\* every image in the application's list and leaves the list as it is
performMemoryCleanup ==
    /\ input.fn = "preview"
    /\ output' = [output EXCEPT !.generatedImages =
                      [k \in 1..Len(@) |-> [@[k] EXCEPT !.usable = FALSE]]]
    /\ UNCHANGED <<isGenerating, surface, canvas, pc, req, res, inflightAtCall, scope, input>>

PreviewNext ==
    \/ generateLivePreview
    \/ generateAllImages
    \/ \E g \in Generations : CardRendered(g)
    \/ \E g \in Generations : CardFails(g)
    \/ GeminiImage
    \/ GeminiFails
    \/ performMemoryCleanup

PreviewSpec == InitPreview /\ [][PreviewNext]_vars

\* Both generations are over, and one of them began while the other ran
OverlapSettled ==
    /\ output.fn = "preview"
    /\ output.overlapped
    /\ \A g \in Generations : output.at[g] \in {"done", "failed"}

\* C23: when a live preview and a batch generation have overlapped and both
\* are over, the images in the application's list are those of one generation,
\* the one in the preview grid; the list is never the union of both.
C23_ListIsOneGeneration ==
    (OverlapSettled /\ output.generatedImages # << >>)
    => Listed(output) = output.previewImagesGrid


\* C24: an image in the application's list has an object URL that has not
\* been revoked, for as long as it is in the list.
C24_ListedImagesKeepTheirUrl ==
    output.fn = "preview"
    => \A k \in 1..Len(output.generatedImages) : output.generatedImages[k].usable

\* C29: when no live preview is running, after a success as after a failure,
\* the button that generates the preview is enabled.
C29_PreviewButtonRestored ==
    (output.fn = "preview" /\ ~Running(output, "live"))
    => output.generatePreviewBtn = "enabled"

(***************************************************************************)
(* WizardSpec: the five steps of PreviewSystem with their step data, the   *)
(* content optimizer as seen from the wizard, and the saved state.         *)
(* EntrySpec: the same steps, walked with the step buttons, with the       *)
(* listeners that the timer callback of goToStep adds on steps 4 and 5.    *)
(* The 100 ms timer is taken together with the call that starts it.        *)
(***************************************************************************)
totalSteps == 5
MaxEntries == 2      \* listeners on one button that are told apart

\* What the user can have in the text area of step 1
Drafts == {"", "first", "second"}

\* The optimizer's text for a draft; << >> stands for no optimized content
OptimizedFrom(draft) == <<"optimized", draft>>

NoTemplate == "null"
NoSnapshot == [currentStep |-> 0]

\* stepData as the constructor and startOver set it
EmptyStepData ==
    [content |-> "", tone |-> "", template |-> NoTemplate, optimizedContent |-> << >>]

\* PreviewSystem after its constructor, on a page just loaded; saved is what
\* the storage holds under auto_save_state
Constructed(saved) ==
    [fn |-> "wizard", currentStep |-> 1, stepData |-> EmptyStepData,
     optimizing |-> "", step2EventsBound |-> FALSE,
     used |-> "none", jumped |-> FALSE, saved |-> saved]

InitWizard ==
    /\ InitEngine
    /\ scope = NoCalls
    /\ input \in [fn : {"wizard"}, selectedTemplate : {NoTemplate, "lifestyle"}]
    /\ output = Constructed(NoSnapshot)

\* The mutant: every step forward is allowed
canProceedAlways(stepData, currentStep, targetStep) == TRUE

\* canProceedFromStep: back is free; forward, the prerequisite of the step
\* being left is looked at, whatever the target
canProceedFromStep(stepData, currentStep, targetStep) ==
    IF targetStep <= currentStep THEN TRUE
    ELSE IF currentStep = 1 THEN stepData.content # ""
    ELSE IF currentStep = 2 THEN stepData.tone # "" /\ stepData.template # NoTemplate
    ELSE IF currentStep = 3 THEN stepData.optimizedContent # << >>
    ELSE TRUE

\* bindStep2Events: the guard flag; the first time, the template is taken
\* from the template manager when it has one selected
bindStep2Events(o) ==
    IF o.step2EventsBound THEN o
    ELSE [o EXCEPT !.step2EventsBound = TRUE,
                   !.stepData.template =
                       IF input.selectedTemplate # NoTemplate
                       THEN input.selectedTemplate ELSE @]

\* initializeStep4 ends with bindAnalysisEvents: one more listener on the
\* analysis buttons
bindAnalysisEvents(o) == [o EXCEPT !.listeners.useAnalysisBtn = @ + 1]

\* initializeExportPage ends with bindExportEvents: one more listener on
\* each of the export buttons
bindExportEvents(o) == [o EXCEPT !.listeners.downloadAllBtn = @ + 1]

\* goToStep with the timer callback of step 2, which touches the step data
goToStep(o, step) ==
    IF step < 1 \/ step > totalSteps THEN o
    ELSE IF ~canProceedFromStep(o.stepData, o.currentStep, step) THEN o
    ELSE IF step = 2 THEN bindStep2Events([o EXCEPT !.currentStep = step])
    ELSE [o EXCEPT !.currentStep = step]

\* The timer callbacks of steps 4 and 5 after a goToStep that was let through
initializeStep(o, step, before) ==
    IF step < 1 \/ step > totalSteps THEN o
    ELSE IF ~canProceedFromStep(before.stepData, before.currentStep, step) THEN o
    ELSE IF step = 4 THEN bindAnalysisEvents(o)
    ELSE IF step = 5 THEN bindExportEvents(o)
    ELSE o

\* the listeners of the step entered can still be told apart
Countable(o, step) ==
    /\ step = 4 => o.listeners.useAnalysisBtn < MaxEntries
    /\ step = 5 => o.listeners.downloadAllBtn < MaxEntries

\* A step button, or regenerateAllImages on step 5: goToStep to the step
\* before or after, and 100 ms later the callback of the step entered
StepButton ==
    /\ input.fn = "wizard"
    /\ \E step \in {output.currentStep - 1, output.currentStep + 1} :
          /\ Countable(output, step)
          /\ output' = initializeStep(goToStep(output, step), step, output)
    /\ UNCHANGED <<isGenerating, surface, canvas, pc, req, res, inflightAtCall, scope, input>>

\* A call of goToStep: the step buttons call it with the step before or
\* after, regenerateAllImages and the empty export grid with 4; calls further
\* forward are remembered in jumped
GoToStep ==
    /\ input.fn = "wizard"
    /\ \E step \in 1..totalSteps :
          /\ output' = [goToStep(output, step) EXCEPT
                           !.jumped = @ \/ (step > output.currentStep + 1
                                            /\ goToStep(output, step).currentStep = step)]
    /\ UNCHANGED <<isGenerating, surface, canvas, pc, req, res, inflightAtCall, scope, input>>

\* The input listener of the text area, and the clear button, on step 1
TypeContent ==
    /\ input.fn = "wizard"
    /\ output.currentStep = 1
    /\ \E draft \in Drafts : output' = [output EXCEPT !.stepData.content = draft]
    /\ UNCHANGED <<isGenerating, surface, canvas, pc, req, res, inflightAtCall, scope, input>>

\* A click on a tone card on step 2
SelectTone ==
    /\ input.fn = "wizard"
    /\ output.currentStep = 2
    /\ output.step2EventsBound
    /\ output' = [output EXCEPT !.stepData.tone = "friendly"]
    /\ UNCHANGED <<isGenerating, surface, canvas, pc, req, res, inflightAtCall, scope, input>>

\* The templateSelected event after a click on a template card on step 2
SelectTemplate ==
    /\ input.fn = "wizard"
    /\ output.currentStep = 2
    /\ output' = [output EXCEPT !.stepData.template = "lifestyle"]
    /\ UNCHANGED <<isGenerating, surface, canvas, pc, req, res, inflightAtCall, scope, input>>

\* handleOptimizeClick on step 3, up to the await inside optimizeContent: the
\* content of this moment is what the optimizer works on
handleOptimizeClick ==
    /\ input.fn = "wizard"
    /\ output.currentStep = 3
    /\ output.optimizing = ""
    /\ output.stepData.content # ""
    /\ output.stepData.tone # ""
    /\ output.stepData.template # NoTemplate
    /\ output' = [output EXCEPT !.optimizing = output.stepData.content]
    /\ UNCHANGED <<isGenerating, surface, canvas, pc, req, res, inflightAtCall, scope, input>>

\* setStepData as displayOptimizationResult calls it
setStepData(o, optimizedContent) == [o EXCEPT !.stepData.optimizedContent = optimizedContent]

\* The optimizer answers, on whatever step the wizard is by now
OptimizationDone ==
    /\ input.fn = "wizard"
    /\ output.optimizing # ""
    /\ output' = [setStepData(output, OptimizedFrom(output.optimizing)) EXCEPT !.optimizing = ""]
    /\ UNCHANGED <<isGenerating, surface, canvas, pc, req, res, inflightAtCall, scope, input>>

\* The optimizer fails and no fallback is taken: the step data stay
OptimizationFails ==
    /\ input.fn = "wizard"
    /\ output.optimizing # ""
    /\ output' = [output EXCEPT !.optimizing = ""]
    /\ UNCHANGED <<isGenerating, surface, canvas, pc, req, res, inflightAtCall, scope, input>>

\* const contentToUse = this.stepData.optimizedContent || this.stepData.content,
\* as the draft the text comes from
contentToUse(stepData) ==
    IF stepData.optimizedContent # << >> THEN stepData.optimizedContent[2]
    ELSE stepData.content

\* generateLivePreview or generateAllImages on step 4, as far as the text
\* goes: used tells whether it comes from the content of that moment
GenerateFromStepData ==
    /\ input.fn = "wizard"
    /\ output.currentStep = 4
    /\ output' = [output EXCEPT !.used =
                     IF contentToUse(output.stepData) = output.stepData.content
                     THEN "current" ELSE "old"]
    /\ UNCHANGED <<isGenerating, surface, canvas, pc, req, res, inflightAtCall, scope, input>>

\* startOver, the button of step 5
startOver ==
    /\ input.fn = "wizard"
    /\ output.currentStep = 5
    /\ output' = goToStep([output EXCEPT !.stepData = EmptyStepData], 1)
    /\ UNCHANGED <<isGenerating, surface, canvas, pc, req, res, inflightAtCall, scope, input>>

\* saveCurrentState on Ctrl+S
saveCurrentState ==
    /\ input.fn = "wizard"
    /\ output' = [output EXCEPT !.saved = [currentStep |-> output.currentStep,
                                           stepData |-> output.stepData]]
    /\ UNCHANGED <<isGenerating, surface, canvas, pc, req, res, inflightAtCall, scope, input>>

\* The page is loaded again: everything is constructed anew, and
\* restoreSavedState, when the user agrees, sets the step data saved and goes
\* to the step saved
restoreSavedState ==
    /\ input.fn = "wizard"
    /\ \E agreed \in BOOLEAN :
          LET loaded == [Constructed(output.saved) EXCEPT !.jumped = output.jumped]
          IN  output' =
                IF agreed /\ output.saved.currentStep # 0
                THEN goToStep([loaded EXCEPT !.stepData = output.saved.stepData],
                              output.saved.currentStep)
                ELSE loaded
    /\ UNCHANGED <<isGenerating, surface, canvas, pc, req, res, inflightAtCall, scope, input>>

\* One click on the download-all button of step 5: every listener bound by
\* bindExportEvents runs downloadAllImages
ClickDownloadAll ==
    /\ input.fn = "wizard"
    /\ output.currentStep = 5
    /\ output' = [output EXCEPT !.clicked = "downloadAllBtn",
                                !.ran = output.listeners.downloadAllBtn]
    /\ UNCHANGED <<isGenerating, surface, canvas, pc, req, res, inflightAtCall, scope, input>>

\* One click on the use-analysis button of step 4
ClickUseAnalysis ==
    /\ input.fn = "wizard"
    /\ output.currentStep = 4
    /\ output' = [output EXCEPT !.clicked = "useAnalysisBtn",
                                !.ran = output.listeners.useAnalysisBtn]
    /\ UNCHANGED <<isGenerating, surface, canvas, pc, req, res, inflightAtCall, scope, input>>

WizardNext ==
    \/ GoToStep
    \/ TypeContent
    \/ SelectTone
    \/ SelectTemplate
    \/ handleOptimizeClick
    \/ OptimizationDone
    \/ OptimizationFails
    \/ GenerateFromStepData
    \/ startOver
    \/ saveCurrentState
    \/ restoreSavedState

WizardSpec == InitWizard /\ [][WizardNext]_vars

\* The wizard on a page just loaded, with the listeners on its buttons
InitEntry ==
    /\ InitEngine
    /\ scope = NoCalls
    /\ input \in [fn : {"wizard"}, selectedTemplate : {NoTemplate, "lifestyle"}]
    /\ output = [fn |-> "wizard", currentStep |-> 1, stepData |-> EmptyStepData,
                 optimizing |-> "", step2EventsBound |-> FALSE,
                 listeners |-> [useAnalysisBtn |-> 0, downloadAllBtn |-> 0],
                 clicked |-> "none", ran |-> 0]

EntryNext ==
    \/ StepButton
    \/ TypeContent
    \/ SelectTone
    \/ SelectTemplate
    \/ handleOptimizeClick
    \/ OptimizationDone
    \/ OptimizationFails
    \/ startOver
    \/ ClickDownloadAll
    \/ ClickUseAnalysis

EntrySpec == InitEntry /\ [][EntryNext]_vars


\* No call of goToStep so far went forward by more than one step, apart from
\* the one restoreSavedState makes
StepByStep == output.fn = "wizard" /\ ~output.jumped

\* C25: the optimized content, when there is one, was produced from the
\* content of step 1 as it is now: on step 4 and after, and in what a
\* generation has used, no optimized text of an earlier content appears.
C25_OptimizedFromCurrentContent ==
    StepByStep
    => /\ output.used # "old"
       /\ output.currentStep >= 4
          => contentToUse(output.stepData) = output.stepData.content

\* the prerequisites of the steps up to the current one
Prerequisites(o) ==
    /\ o.currentStep >= 2 => o.stepData.content # ""
    /\ o.currentStep >= 3 => (o.stepData.tone # "" /\ o.stepData.template # NoTemplate)
    /\ o.currentStep >= 4 => o.stepData.optimizedContent # << >>

\* C26 as stated: the prerequisites hold in every state of the wizard, for
\* any sequence of goToStep calls, forward by more than one step included.
C26_PrerequisitesEnforced == output.fn = "wizard" => Prerequisites(output)

\* C26: the prerequisites hold in every state reached with the step buttons,
\* startOver, saveCurrentState and restoreSavedState, where every goToStep
\* goes forward one step at a time or restores the saved step.
C26_PrerequisitesStepByStep == StepByStep => Prerequisites(output)

\* step 5 on a page loaded again: reached by the goToStep of restoreSavedState
C26_Witness ==
    /\ StepByStep
    /\ output.currentStep = 5
    /\ ~output.step2EventsBound
    /\ output.saved.currentStep = 5

\* C30: one click on a button of step 4 or step 5 runs its action once,
\* however often the step has been entered.
C30_OneClickRunsOnce == output.clicked # "none" => output.ran = 1


\* the fixed gap between the title panel and the content panel
PanelGap == 16

\* C27: for every aspect ratio, title height and body length, the top edge of
\* the content panel is not above the bottom edge of the title panel plus the
\* gap, so the two panels do not overlap.
C27_PanelBelowTitle ==
    (output.fn = "drawContent" /\ output.panel.drawn)
    => output.panel.y >= output.title.bottomY + PanelGap


----------------------------------------------------------------------------
(* TierSpec: drawContent on bodies whose length is at, just under and just   *)
(* over the limits between the tiers of the panel's minimum height           *)

\* the body lengths that drawMainContent compares contentLength with
TierLimits == {90, 160, 260}

TierLengths == UNION {{limit - 1, limit, limit + 1} : limit \in TierLimits}

\* A card with a title line and a body of one paragraph of n ideographs
TierContents ==
    {<<"biao", "ti", ":", "a", "nl">> \o Repeat(<<"han">>, n) : n \in TierLengths}

InitTier ==
    /\ InitEngine
    /\ scope = NoCalls
    /\ input \in [fn : {"drawContent"}, content : TierContents,
                  customTags : {<< >>},
                  imageStyle : StyleNames \ {"unknown"},
                  aspectRatio : AspectRatios]
    /\ output = [fn |-> "none"]

TierSpec == InitTier /\ [][DrawContent]_vars

\* const bottomSafePadding = styleProfile.decorationLevel === 'none' ? 72 : 90
BottomSafePadding(imageStyle) == IF DecorationLevel(imageStyle) = "none" THEN 72 ELSE 90

\* The content panel has been drawn: the length of its body and the room
\* from its top down to the bottom-safe margin
PanelDrawn == output.fn = "drawContent" /\ output.panel.drawn
BodyLength == JsLength(Trim(output.parsed.body))
RoomBelow ==
    getDesignDimensions(input.aspectRatio).height - BottomSafePadding(input.imageStyle)
    - output.panel.y

\* C28 as stated: tiers of under 90, under 160, under 260 and from 260
\* characters on, so that exactly 90, 160 and 260 fall into the higher tier.
C28_HeightWithinStatedTiers ==
    PanelDrawn
    => /\ output.panel.height <= RoomBelow
       /\ output.panel.height >= (IF BodyLength < 90 THEN 240
                                  ELSE IF BodyLength < 160 THEN 280
                                  ELSE IF BodyLength < 260 THEN 320 ELSE 360)

\* C28: the height of the content panel lies between the minimum of its tier
\* (240 up to 90 characters, 280 up to 160, 320 up to 260, 360 above) and the
\* room down to the bottom-safe margin; exactly 90, 160 and 260 characters
\* fall into the lower tier.
C28_HeightWithinTiers ==
    PanelDrawn
    => /\ output.panel.height <= RoomBelow
       /\ output.panel.height >= (IF BodyLength <= 90 THEN 240
                                  ELSE IF BodyLength <= 160 THEN 280
                                  ELSE IF BodyLength <= 260 THEN 320 ELSE 360)

\* a body of exactly 160 characters in a panel of the height of its tier
C28_Witness == PanelDrawn /\ BodyLength = 160 /\ output.panel.height = 280

====
